---- MODULE Spec2Model ----
(***************************************************************************)
(* Order-lifecycle and margin-accounting engine of lfest (leveraged        *)
(* futures exchange for simulated trading), linear futures.                *)
(*                                                                         *)
(* Prices and margin-currency amounts are fixed-point mantissas with       *)
(* DecimalPlaces fractional digits (a price of 300 is 300 * Scale);        *)
(* quantities are whole contracts.  Division truncates.                    *)
(*                                                                         *)
(* Every public operation of Exchange is one action.  An operation is a    *)
(* chain of steps over a record of the exchange's fields; a failed         *)
(* assert!/expect() stops the chain and leaves the record as it was at     *)
(* the failing statement, with the field panic naming the assertion.       *)
(***************************************************************************)
EXTENDS Integers, Sequences, FiniteSets, TLC

\* ------------------------------------------------------------------ bounds
MaxOrderId == 2
MaxStep == 2
MaxTs == 1
MaxQty == 3
NumPrices == 3
MaxUserOrderId == 1
\* fractional digits of the fixed-point amounts
DecimalPlaces == 4
\* Config: the cap on the number of active limit orders
max_num_open_orders == 1

\* ----------------------------------------------------------- configuration
Scale == 10 ^ DecimalPlaces
starting_wallet_balance == 1000 * Scale
\* init_margin_req = 1 (leverage 1), as a fraction
ImrNum == 1
ImrDen == 1
\* fees in basis points of 1/10000
FeeDen == 10000
fee_taker == 6
fee_maker == 2
\* quantity filter: min_quantity = None, max_quantity = Some(2), tick_size = 1
max_quantity == 2

None == <<>>
Some(x) == <<x>>

Buy == "Buy"
Sell == "Sell"
Sides == {Buy, Sell}

Prices == {(300 + i) * Scale : i \in 0 .. (NumPrices - 1)}
Quantities == 1 .. MaxQty
Timestamps == 0 .. MaxTs
\* user order ids are integers, UserOrderId::default() is 0
UserOrderIds == 0 .. MaxUserOrderId

USER_WALLET_ACCOUNT == "USER_WALLET"
USER_ORDER_MARGIN_ACCOUNT == "USER_ORDER_MARGIN"
USER_POSITION_MARGIN_ACCOUNT == "USER_POSITION_MARGIN"
EXCHANGE_FEE_ACCOUNT == "EXCHANGE_FEE"
TREASURY_ACCOUNT == "TREASURY"
Accounts == {USER_WALLET_ACCOUNT, USER_ORDER_MARGIN_ACCOUNT, USER_POSITION_MARGIN_ACCOUNT,
             EXCHANGE_FEE_ACCOUNT, TREASURY_ACCOUNT}

NoPanic == "none"

VARIABLES
    market_state,           \* [bid, ask, current_ts_ns, step]
    next_order_id,          \* the order-id counter
    transaction_accounting, \* account -> net balance (debits posted - credits posted)
    position,               \* [kind, quantity, entry_price]
    active_limit_orders,    \* OrderId -> pending limit order
    lookup_order_nonce_from_user_order_id, \* UserOrderId -> OrderId
    order_margin,           \* the order-margin calculator's copy of the active orders
    debug_assertions,       \* whether the build keeps debug_assert!
    panic,                  \* NoPanic, or the assertion that aborted the program
    result,                 \* the last call: its name, the arguments the properties
                            \* read, the status and updates returned, the id it drew
    last_order_id,          \* id of the last accepted order, -1 before the first
    closed_order_ids,       \* ids of the limit orders cancelled or fully filled so far
    quantity_filter         \* Config: the quantity filter of the contract specification

vars == <<market_state, next_order_id, transaction_accounting, position,
          active_limit_orders, lookup_order_nonce_from_user_order_id, order_margin,
          debug_assertions, panic, result, last_order_id, closed_order_ids, quantity_filter>>

\* ------------------------------------------------------------- arithmetic
Max(a, b) == IF a >= b THEN a ELSE b
Min(a, b) == IF a <= b THEN a ELSE b
Abs(a) == IF a < 0 THEN 0 - a ELSE a
\* Decimal division truncates toward zero
TruncDiv(a, b) == IF a >= 0 THEN a \div b ELSE 0 - ((0 - a) \div b)

\* BaseCurrency::convert: quantity * price, in quote currency
Convert(qty, price) == qty * price
\* amount * init_margin_req
MulImr(amount) == TruncDiv(amount * ImrNum, ImrDen)
\* trade_value * fee
MulFee(amount, fee) == TruncDiv(amount * fee, FeeDen)

\* fault: the exit is valued at the entry price, so no profit or loss arises
PnlAtEntry(entry_price, exit_price, quantity) ==
    IF quantity = 0 THEN 0
    ELSE Convert(quantity, entry_price) - Convert(quantity, entry_price)

\* QuoteCurrency::pnl for linear futures, quantity signed
Pnl(entry_price, exit_price, quantity) ==
    IF quantity = 0 THEN 0
    ELSE Convert(quantity, exit_price) - Convert(quantity, entry_price)

\* ------------------------------------------------- the chain of steps
\* m is a record of the exchange's fields plus panic
Check(m, cond, msg) ==
    IF m.panic # NoPanic THEN m
    ELSE IF cond THEN m ELSE [m EXCEPT !.panic = msg]

\* TAccount
post_debit(balance, amount) == balance + amount
\* fault: the credit side of a transaction is not posted
post_credit_lost(balance, amount) == balance
post_credit(balance, amount) == balance - amount
net_balance(m, account) == m.transaction_accounting[account]

\* Transaction::new(debit, credit, amount) and create_margin_transfer
Transfer(m, debit_account, credit_account, amount) ==
    IF m.panic # NoPanic THEN m
    ELSE IF amount <= 0 THEN [m EXCEPT !.panic = "Transaction: amount must be positive"]
    ELSE [m EXCEPT !.transaction_accounting =
              [a \in Accounts |->
                  IF a = debit_account /\ a = credit_account THEN @[a]
                  ELSE IF a = debit_account THEN post_debit(@[a], amount)
                  ELSE IF a = credit_account THEN post_credit(@[a], amount)
                  ELSE @[a]]]

\* utils::assert_user_wallet_balance
assert_user_wallet_balance(m) ==
    Check(m, m.panic # NoPanic \/ net_balance(m, USER_WALLET_ACCOUNT) >= 0,
          "assert_user_wallet_balance")

\* ---------------------------------------------------------------- position
Neutral == [kind |-> "Neutral", quantity |-> 0, entry_price |-> 0]
PositionOf(kind, qty, price) == [kind |-> kind, quantity |-> qty, entry_price |-> price]

SetPosition(m, p) == IF m.panic # NoPanic THEN m ELSE [m EXCEPT !.position = p]

\* PositionInner::unrealized_pnl
PositionInner_unrealized_pnl(pos, mark_to_market_price, direction_multiplier) ==
    Pnl(pos.entry_price, mark_to_market_price, pos.quantity * direction_multiplier)

\* QuoteCurrency::into_negative
into_negative(amount) == 0 - amount

\* Position::unrealized_pnl
unrealized_pnl(pos, bid, ask) ==
    IF pos.kind = "Neutral" THEN 0
    ELSE IF pos.kind = "Long" THEN PositionInner_unrealized_pnl(pos, bid, 1)
    ELSE into_negative(PositionInner_unrealized_pnl(pos, ask, -1))

\* PositionInner::new
PositionInnerNew(m, kind, qty, entry_price) ==
    SetPosition(
        Transfer(Check(Check(m, qty > 0, "PositionInner::new: qty > 0"),
                       entry_price > 0, "PositionInner::new: entry_price > 0"),
                 USER_POSITION_MARGIN_ACCOUNT, USER_WALLET_ACCOUNT,
                 MulImr(Convert(qty, entry_price))),
        PositionOf(kind, qty, entry_price))

\* PositionInner::new_avg_entry_price, on the fields of self as they are at the call
new_avg_entry_price(self_quantity, self_entry_price, added_qty, entry_price) ==
    TruncDiv((self_quantity * self_entry_price) + (added_qty * entry_price),
             self_quantity + added_qty)

\* the two assignments of increase_contracts: the quantity is increased first, then
\* the average entry price is computed from the already increased quantity
IncreaseQuantity(m, qty, entry_price) ==
    IF m.panic # NoPanic THEN m
    ELSE [m EXCEPT !.position.quantity = @ + qty,
                   !.position.entry_price =
                       new_avg_entry_price(m.position.quantity + qty, @, qty, entry_price)]

\* PositionInner::increase_contracts
increase_contracts(m, qty, entry_price) ==
    Transfer(IncreaseQuantity(Check(Check(m, qty > 0, "increase_contracts: qty > 0"),
                                    entry_price > 0, "increase_contracts: entry_price > 0"),
                              qty, entry_price),
             USER_POSITION_MARGIN_ACCOUNT, USER_WALLET_ACCOUNT,
             MulImr(Convert(qty, entry_price)))

DecreaseQuantity(m, qty) ==
    IF m.panic # NoPanic THEN m ELSE [m EXCEPT !.position.quantity = @ - qty]

\* fault: a profit is taken from the wallet and a loss paid into it
RealizePnlReversed(m, pnl) ==
    IF pnl > 0 THEN Transfer(m, TREASURY_ACCOUNT, USER_WALLET_ACCOUNT, pnl)
    ELSE IF pnl < 0 THEN Transfer(m, USER_WALLET_ACCOUNT, TREASURY_ACCOUNT, Abs(pnl))
    ELSE m

\* the match on pnl in decrease_contracts
RealizePnl(m, pnl) ==
    IF pnl > 0 THEN Transfer(m, USER_WALLET_ACCOUNT, TREASURY_ACCOUNT, pnl)
    ELSE IF pnl < 0 THEN Transfer(m, TREASURY_ACCOUNT, USER_WALLET_ACCOUNT, Abs(pnl))
    ELSE m

\* PositionInner::decrease_contracts
decrease_contracts(m, qty, liquidation_price, direction_multiplier) ==
    Transfer(
        RealizePnl(
            DecreaseQuantity(
                Check(Check(m, qty > 0, "decrease_contracts: qty > 0"),
                      qty <= m.position.quantity, "decrease_contracts: qty <= self.quantity"),
                qty),
            Pnl(m.position.entry_price, liquidation_price, qty * direction_multiplier)),
        USER_WALLET_ACCOUNT, USER_POSITION_MARGIN_ACCOUNT,
        MulImr(Convert(qty, m.position.entry_price)))

\* fault: a turnaround opens the opposite position without closing the old one
ReducePositionNoClose(m, filled_qty, fill_price, dm, opposite_kind) ==
    IF filled_qty > m.position.quantity
    THEN PositionInnerNew(m, opposite_kind, filled_qty - m.position.quantity, fill_price)
    ELSE IF filled_qty = m.position.quantity
    THEN SetPosition(decrease_contracts(m, filled_qty, fill_price, dm), Neutral)
    ELSE decrease_contracts(m, filled_qty, fill_price, dm)

\* the opposing-fill branch of change_position for a Long (dm = 1) or Short (dm = -1)
ReducePosition(m, filled_qty, fill_price, dm, opposite_kind) ==
    IF filled_qty > m.position.quantity
    THEN PositionInnerNew(decrease_contracts(m, m.position.quantity, fill_price, dm),
                          opposite_kind, filled_qty - m.position.quantity, fill_price)
    ELSE IF filled_qty = m.position.quantity
    THEN SetPosition(decrease_contracts(m, filled_qty, fill_price, dm), Neutral)
    ELSE decrease_contracts(m, filled_qty, fill_price, dm)

\* the match of change_position
ChangePositionMatch(m, filled_qty, fill_price, side) ==
    IF m.panic # NoPanic THEN m
    ELSE IF m.position.kind = "Neutral"
    THEN PositionInnerNew(m, IF side = Buy THEN "Long" ELSE "Short", filled_qty, fill_price)
    ELSE IF m.position.kind = "Long"
    THEN IF side = Buy THEN increase_contracts(m, filled_qty, fill_price)
         ELSE ReducePosition(m, filled_qty, fill_price, 1, "Short")
    ELSE IF side = Buy THEN ReducePosition(m, filled_qty, fill_price, -1, "Long")
         ELSE increase_contracts(m, filled_qty, fill_price)

\* Position::change_position
change_position(m, filled_qty, fill_price, side) ==
    assert_user_wallet_balance(ChangePositionMatch(m, filled_qty, fill_price, side))

\* ------------------------------------------------------------ limit orders
\* LimitOrder<Pending>: identity plus the cumulative filled quantity
LimitOrder(id, user_order_id, side, limit_price, quantity) ==
    [id |-> id, user_order_id |-> user_order_id, side |-> side,
     limit_price |-> limit_price, quantity |-> quantity, cumulative_qty |-> 0]

remaining_quantity(order) == order.quantity - order.cumulative_qty

\* LimitOrder::fill: the order with the fill added to its cumulative quantity
fill(order, filled_qty) == [order EXCEPT !.cumulative_qty = @ + filled_qty]

MapRemove(f, k) == [x \in (DOMAIN f) \ {k} |-> f[x]]
MapInsert(f, k, v) == [x \in (DOMAIN f) \cup {k} |-> IF x = k THEN v ELSE f[x]]
EmptyMap == [x \in {} |-> 0]

\* ------------------------------------------------- order-margin calculator
RECURSIVE NotionalSum(_, _, _)
NotionalSum(orders, ids, side) ==
    IF ids = {} THEN 0
    ELSE LET id == CHOOSE i \in ids : TRUE
         IN (IF orders[id].side = side
             THEN Convert(remaining_quantity(orders[id]), orders[id].limit_price)
             ELSE 0)
            + NotionalSum(orders, ids \ {id}, side)

\* signed size of the position
PositionSize(p) ==
    IF p.kind = "Long" THEN p.quantity
    ELSE IF p.kind = "Short" THEN 0 - p.quantity
    ELSE 0

\* Account::compute_order_margin; the open buy / sell quantities it also sums
\* are never read again and do not enter the result
compute_order_margin(orders, pos) ==
    LET buy_notional_value_sum ==
            Max(NotionalSum(orders, DOMAIN orders, Buy)
                    - Convert(Abs(Min(PositionSize(pos), 0)), pos.entry_price),
                0)
        sell_notional_value_sum ==
            Max(0,
                NotionalSum(orders, DOMAIN orders, Sell)
                    - Convert(Max(0, PositionSize(pos)), pos.entry_price))
    IN MulImr(Max(buy_notional_value_sum, sell_notional_value_sum))

\* OrderMargin::order_margin on the calculator's copy of the orders
OrderMarginOf(m) == compute_order_margin(m.order_margin, m.position)

\* ------------------------------------------------------------- risk engine
\* IsolatedMarginRiskEngine::check_market_order
check_market_order(pos, position_margin, side, qty, fill_price, available_wallet_balance) ==
    LET fee == MulFee(Convert(qty, fill_price), fee_taker)
        same == pos.kind = "Neutral" \/ (pos.kind = "Long" /\ side = Buy)
                   \/ (pos.kind = "Short" /\ side = Sell)
        required == IF same THEN MulImr(Convert(qty, fill_price)) + fee
                    ELSE IF qty <= pos.quantity THEN fee
                    ELSE MulImr(Convert(qty - pos.quantity, fill_price)) + fee
        released == IF same THEN 0
                    ELSE IF qty <= pos.quantity THEN MulImr(Convert(qty, pos.entry_price))
                    ELSE position_margin
    IN IF required > available_wallet_balance + released
       THEN "NotEnoughAvailableBalance" ELSE "Ok"

\* IsolatedMarginRiskEngine::check_limit_order
check_limit_order(pos, order, available_wallet_balance, orders) ==
    LET old_margin == compute_order_margin(orders, pos)
        new_margin == compute_order_margin(MapInsert(orders, order.id, order), pos)
    IN IF new_margin - old_margin > available_wallet_balance
       THEN "NotEnoughAvailableBalance" ELSE "Ok"

\* IsolatedMarginRiskEngine::check_maintenance_margin: the mark-to-market equity
\* of the position against the maintenance margin (= init_margin_req) at the mark
check_maintenance_margin(ms, pos) ==
    IF pos.kind = "Neutral" THEN "Ok"
    ELSE LET mark == IF pos.kind = "Long" THEN ms.bid ELSE ms.ask
             upnl == IF pos.kind = "Long"
                     THEN Pnl(pos.entry_price, mark, pos.quantity)
                     ELSE Pnl(pos.entry_price, mark, 0 - pos.quantity)
             equity == MulImr(Convert(pos.quantity, pos.entry_price)) + upnl
             maintenance == MulImr(Convert(pos.quantity, mark))
         IN IF equity < maintenance THEN "MaintenanceMarginViolated" ELSE "Ok"

\* ------------------------------------------------------------ order filters
\* QuantityFilter::validate_order_quantity, min_quantity and max_quantity optional
validate_order_quantity(min_qty, max_qty, tick_size, quantity) ==
    IF quantity = 0 THEN "QuantityTooLow"
    ELSE IF max_qty # None /\ quantity > max_qty[1] THEN "QuantityTooHigh"
    ELSE IF min_qty # None /\ quantity < min_qty[1] THEN "QuantityTooLow"
    ELSE IF ((quantity - (IF min_qty # None THEN min_qty[1] ELSE 0)) % tick_size) # 0
    THEN "InvalidQuantityStepSize"
    ELSE "Ok"

\* QuantityFilter::new
QuantityFilterNew(min_quantity, max_qty, tick_size) ==
    [min_quantity |-> min_quantity, max_quantity |-> max_qty, tick_size |-> tick_size]

QuantityFilterCheck(quantity) ==
    validate_order_quantity(quantity_filter.min_quantity, quantity_filter.max_quantity,
                            quantity_filter.tick_size, quantity)

\* PriceFilter with min_price = None, max_price = None, tick_size = 1
PriceFilterCheck(price) == IF (price % Scale) # 0 THEN "InvalidTickSize" ELSE "Ok"

\* ------------------------------------------------------------ market updates
Bba(bid, ask) == [type |-> "Bba", bid |-> bid, ask |-> ask, price |-> 0, quantity |-> 0, side |-> "-"]
Trade(price, quantity, side) ==
    [type |-> "Trade", bid |-> 0, ask |-> 0, price |-> price, quantity |-> quantity, side |-> side]

\* the sum of the quantities of the taker trades of the side at the price or
\* beyond it: above it for buys, below it for sells
RECURSIVE VolumeThrough(_, _, _, _)
VolumeThrough(taker_trades, side, price, i) ==
    IF i > Len(taker_trades) THEN 0
    ELSE (IF /\ taker_trades[i].side = side
             /\ IF side = Buy THEN taker_trades[i].price >= price
                ELSE taker_trades[i].price <= price
          THEN taker_trades[i].quantity ELSE 0)
         + VolumeThrough(taker_trades, side, price, i + 1)

\* the aggregation loops of SmartCandle::new: the price levels of the side,
\* the largest first for buys and the smallest first for sells, each with the
\* volume summed up to and including the level
RECURSIVE AggregateVolume(_, _, _)
AggregateVolume(taker_trades, side, levels) ==
    IF levels = {} THEN <<>>
    ELSE LET first == CHOOSE p \in levels :
                         \A q \in levels : IF side = Buy THEN q <= p ELSE q >= p
         IN <<<<first, VolumeThrough(taker_trades, side, first, 1)>>>>
                \o AggregateVolume(taker_trades, side, levels \ {first})

\* SmartCandle::new for a non-empty slice of trades and a valid quote
SmartCandleNew(taker_trades, bba) ==
    [type |-> "SmartCandle", bid |-> bba.bid, ask |-> bba.ask,
     price |-> 0, quantity |-> 0, side |-> "-",
     aggregate_buy_volume |->
        AggregateVolume(taker_trades, Buy,
                        {taker_trades[i].price :
                            i \in {j \in DOMAIN taker_trades : taker_trades[j].side = Buy}}),
     aggregate_sell_volume |->
        AggregateVolume(taker_trades, Sell,
                        {taker_trades[i].price :
                            i \in {j \in DOMAIN taker_trades : taker_trades[j].side = Sell}})]

\* Bba::validate_market_update
Bba_validate_market_update(upd) ==
    IF upd.bid >= upd.ask THEN "BidGreaterThanAsk"
    ELSE IF PriceFilterCheck(upd.bid) # "Ok" THEN PriceFilterCheck(upd.bid)
    ELSE PriceFilterCheck(upd.ask)

\* Trade::validate_market_update
Trade_validate_market_update(upd) == PriceFilterCheck(upd.price)

\* SmartCandle::validate_market_update
SmartCandle_validate_market_update(upd) == "Ok"

\* MarketUpdate::validate_market_update
validate_market_update(upd) ==
    IF upd.type = "Bba" THEN Bba_validate_market_update(upd)
    ELSE IF upd.type = "Trade" THEN Trade_validate_market_update(upd)
    ELSE SmartCandle_validate_market_update(upd)

\* Bba::limit_order_filled: a quote never fills a resting order
Bba_limit_order_filled(upd, order) == None

\* fault: a trade at the limit price already fills the order
Trade_limit_order_filled_at_price(upd, order) ==
    IF (order.side = Buy /\ upd.price <= order.limit_price /\ upd.side = Sell)
          \/ (order.side = Sell /\ upd.price >= order.limit_price /\ upd.side = Buy)
    THEN Some(Min(upd.quantity, remaining_quantity(order)))
    ELSE None

\* Trade::limit_order_filled past its two assertions: None, or Some(filled quantity)
Trade_limit_order_filled(upd, order) ==
    IF (order.side = Buy /\ upd.price < order.limit_price /\ upd.side = Sell)
          \/ (order.side = Sell /\ upd.price > order.limit_price /\ upd.side = Buy)
    THEN Some(Min(upd.quantity, remaining_quantity(order)))
    ELSE None

\* fault: a quote through the limit price fills what remains of the order
limit_order_filled_by_quotes(upd, order) ==
    IF upd.type = "Trade" THEN Trade_limit_order_filled(upd, order)
    ELSE IF (order.side = Buy /\ upd.ask < order.limit_price)
               \/ (order.side = Sell /\ upd.bid > order.limit_price)
    THEN Some(remaining_quantity(order))
    ELSE None

\* SmartCandle::limit_order_filled: todo!() in both arms of the match, so the
\* call never returns; the abort is raised where check_active_orders makes the
\* call and the value here is never read
SmartCandle_limit_order_filled(upd, order) == None

\* MarketUpdate::limit_order_filled
limit_order_filled(upd, order) ==
    IF upd.type = "Bba" THEN Bba_limit_order_filled(upd, order)
    ELSE IF upd.type = "Trade" THEN Trade_limit_order_filled(upd, order)
    ELSE SmartCandle_limit_order_filled(upd, order)

\* Bba::update_market_state
Bba_update_market_state(ms, upd) == [ms EXCEPT !.bid = upd.bid, !.ask = upd.ask]

\* Trade::update_market_state
Trade_update_market_state(ms, upd) == ms

\* SmartCandle::update_market_state
SmartCandle_update_market_state(ms, upd) == [ms EXCEPT !.bid = upd.bid, !.ask = upd.ask]

\* MarketUpdate::update_market_state
update_market_state(ms, upd) ==
    IF upd.type = "Bba" THEN Bba_update_market_state(ms, upd)
    ELSE IF upd.type = "Trade" THEN Trade_update_market_state(ms, upd)
    ELSE SmartCandle_update_market_state(ms, upd)

\* MarketState::update_state after a successful validation
MarketStateUpdate(ms, timestamp_ns, upd) ==
    [update_market_state(ms, upd) EXCEPT !.current_ts_ns = timestamp_ns, !.step = @ + 1]

\* ----------------------------------------------------------------- exchange
DebugCheck(m, cond, msg) == IF m.debug_assertions THEN Check(m, cond, msg) ELSE m

OrderMarginBalance(m) == net_balance(m, USER_ORDER_MARGIN_ACCOUNT)

\* the closing assertions shared by append_limit_order, cancel_limit_order and
\* check_active_orders
AssertOrderBook(m) ==
    Check(Check(m, m.order_margin = m.active_limit_orders,
                "assert_eq: order_margin.active_limit_orders == active_limit_orders"),
          (DOMAIN m.active_limit_orders = {}) => (OrderMarginBalance(m) = 0),
          "assert: no active orders => order margin is zero")

\* fault: the fee is computed and never booked
detract_fee_unbooked(m, trade_value, fee) ==
    assert_user_wallet_balance(Check(m, trade_value > 0, "detract_fee: trade_value > 0"))

\* Exchange::detract_fee
detract_fee(m, trade_value, fee) ==
    assert_user_wallet_balance(
        Transfer(Check(m, trade_value > 0, "detract_fee: trade_value > 0"),
                 EXCHANGE_FEE_ACCOUNT, USER_WALLET_ACCOUNT, MulFee(trade_value, fee)))

\* fault: the market order is charged the maker fee
settle_filled_market_order_maker_fee(m, side, filled_qty, fill_price) ==
    change_position(
        detract_fee(
            Check(Check(m, filled_qty > 0, "settle_filled_market_order: filled_qty > 0"),
                  fill_price > 0, "settle_filled_market_order: fill_price > 0"),
            Convert(filled_qty, fill_price), fee_maker),
        filled_qty, fill_price, side)

\* Exchange::settle_filled_market_order
settle_filled_market_order(m, side, filled_qty, fill_price) ==
    change_position(
        detract_fee(
            Check(Check(m, filled_qty > 0, "settle_filled_market_order: filled_qty > 0"),
                  fill_price > 0, "settle_filled_market_order: fill_price > 0"),
            Convert(filled_qty, fill_price), fee_taker),
        filled_qty, fill_price, side)

\* the three inserts of append_limit_order
InsertLimitOrder(m, order) ==
    [m EXCEPT !.order_margin = MapInsert(@, order.id, order),
              !.active_limit_orders = MapInsert(@, order.id, order),
              !.lookup_order_nonce_from_user_order_id =
                  MapInsert(@, order.user_order_id, order.id)]

\* the match of append_limit_order on new_order_margin.cmp(&order_margin)
ReserveOrderMargin(m, new_order_margin, order_margin_balance) ==
    IF new_order_margin = order_margin_balance THEN m
    ELSE AssertOrderBook(assert_user_wallet_balance(
            IF new_order_margin > order_margin_balance
            THEN Transfer(m, USER_ORDER_MARGIN_ACCOUNT, USER_WALLET_ACCOUNT,
                          new_order_margin - order_margin_balance)
            ELSE Transfer(m, USER_ORDER_MARGIN_ACCOUNT, USER_WALLET_ACCOUNT,
                          order_margin_balance - new_order_margin)))

AppendAfterInsert(m) == ReserveOrderMargin(m, OrderMarginOf(m), OrderMarginBalance(m))

\* Exchange::append_limit_order
append_limit_order(m, order) == AppendAfterInsert(InsertLimitOrder(m, order))

\* fault: the freed order margin is not transferred back to the wallet
ReleaseTransferNone(m, new_order_margin, old_order_margin, msg) ==
    Check(m, new_order_margin <= old_order_margin, msg)

\* the release of order margin after a cancel or a fill: the assertion that the
\* margin did not grow, then the transfer of the difference back to the wallet
ReleaseTransfer(m, new_order_margin, old_order_margin, msg) ==
    IF new_order_margin < old_order_margin
    THEN Transfer(Check(m, new_order_margin <= old_order_margin, msg),
                  USER_WALLET_ACCOUNT, USER_ORDER_MARGIN_ACCOUNT,
                  old_order_margin - new_order_margin)
    ELSE Check(m, new_order_margin <= old_order_margin, msg)

\* fault: the whole order margin is handed back, whatever is still required
ReleaseOrderMarginAll(m, old_order_margin, msg) ==
    IF m.panic # NoPanic THEN m
    ELSE ReleaseTransfer(m, 0, old_order_margin, msg)

\* the new order margin of a cancel or a fill, and its release
ReleaseOrderMargin(m, old_order_margin, msg) ==
    IF m.panic # NoPanic THEN m
    ELSE ReleaseTransfer(m, OrderMarginOf(m), old_order_margin, msg)

RemoveLimitOrder(m, order_id) ==
    [m EXCEPT !.active_limit_orders = MapRemove(@, order_id),
              !.order_margin = MapRemove(@, order_id)]

\* cancel_limit_order after its first assertion
CancelChecked(m, order_id) ==
    IF m.panic # NoPanic THEN m
    ELSE IF order_id \notin DOMAIN m.active_limit_orders
    THEN [m EXCEPT !.error = "OrderIdNotFound"]
    ELSE AssertOrderBook(
            ReleaseOrderMargin(RemoveLimitOrder(m, order_id), OrderMarginBalance(m),
                               "cancel_limit_order: new order margin <= old order margin"))

\* Exchange::cancel_limit_order; the record's field error is the Err returned
cancel_limit_order(m, order_id) ==
    CancelChecked(Check(m, OrderMarginBalance(m) = OrderMarginOf(m),
                        "cancel_limit_order: assert_eq order margin"),
                  order_id)

\* Exchange::remove_executed_order_from_active
remove_executed_order_from_active(m, order_id) ==
    IF m.panic # NoPanic THEN m
    ELSE IF order_id \notin DOMAIN m.active_limit_orders
    THEN [m EXCEPT !.panic = "expect: The order must have been active"]
    ELSE IF m.active_limit_orders[order_id].user_order_id
                \in DOMAIN m.lookup_order_nonce_from_user_order_id
    THEN DebugCheck(
            [m EXCEPT !.active_limit_orders = MapRemove(@, order_id),
                      !.lookup_order_nonce_from_user_order_id =
                          MapRemove(@, m.active_limit_orders[order_id].user_order_id)],
            m.lookup_order_nonce_from_user_order_id[
                m.active_limit_orders[order_id].user_order_id] = order_id,
            "remove_executed_order_from_active: debug_assert_eq order id")
    ELSE [m EXCEPT !.active_limit_orders = MapRemove(@, order_id)]

\* fault: every fill is reported as a partial fill
LimitOrderUpdatePartial(filled_order) ==
    [kind |-> "PartiallyFilled", order |-> filled_order]

\* the LimitOrderUpdate check_active_orders pushes for the order after its fill
LimitOrderUpdate(filled_order) ==
    [kind |-> IF remaining_quantity(filled_order) = 0 THEN "FullyFilled"
              ELSE "PartiallyFilled",
     order |-> filled_order]

\* fault: a fully filled order is updated like a partially filled one and is
\* not marked for removal
ApplyFillKept(m, filled_order) ==
    IF m.panic # NoPanic THEN m
    ELSE [m EXCEPT
             !.active_limit_orders = MapInsert(@, filled_order.id, filled_order),
             !.order_margin = MapInsert(@, filled_order.id, filled_order),
             !.order_updates = Append(@, LimitOrderUpdate(filled_order))]

\* order.fill in check_active_orders with the pushes and the calculator's
\* remove / update that follow it
ApplyFill(m, filled_order) ==
    IF m.panic # NoPanic THEN m
    ELSE [m EXCEPT
             !.active_limit_orders = MapInsert(@, filled_order.id, filled_order),
             !.order_margin = IF remaining_quantity(filled_order) = 0
                              THEN MapRemove(@, filled_order.id)
                              ELSE MapInsert(@, filled_order.id, filled_order),
             !.order_updates = Append(@, LimitOrderUpdate(filled_order)),
             !.ids_to_remove = IF remaining_quantity(filled_order) = 0
                               THEN Append(@, filled_order.id) ELSE @]

\* fault: the fill of a limit order is charged the taker fee
FillOrderFilledTakerFee(m, order, filled_qty) ==
    assert_user_wallet_balance(
        detract_fee(
            ReleaseOrderMargin(
                change_position(
                    ApplyFill(
                        DebugCheck(
                            Check(m, filled_qty > 0, "The filled_qty must be greater than zero"),
                            OrderMarginBalance(m) = OrderMarginOf(m),
                            "check_active_orders: debug_assert_eq order margin before fill"),
                        fill(order, filled_qty)),
                    filled_qty, order.limit_price, order.side),
                OrderMarginBalance(m),
                "The order margin does not increase with a filled limit order event."),
            Convert(filled_qty, order.limit_price), fee_taker))

\* the body of the loop of check_active_orders for an order the update fills
FillOrderFilled(m, order, filled_qty) ==
    assert_user_wallet_balance(
        detract_fee(
            ReleaseOrderMargin(
                change_position(
                    ApplyFill(
                        DebugCheck(
                            Check(m, filled_qty > 0, "The filled_qty must be greater than zero"),
                            OrderMarginBalance(m) = OrderMarginOf(m),
                            "check_active_orders: debug_assert_eq order margin before fill"),
                        fill(order, filled_qty)),
                    filled_qty, order.limit_price, order.side),
                OrderMarginBalance(m),
                "The order margin does not increase with a filled limit order event."),
            Convert(filled_qty, order.limit_price), fee_maker))

\* one iteration of the loop of check_active_orders, after the assertions of
\* limit_order_filled
FillOrderMatched(m, upd, order) ==
    IF m.panic # NoPanic \/ limit_order_filled(upd, order) = None THEN m
    ELSE FillOrderFilled(m, order, limit_order_filled(upd, order)[1])

\* one iteration of the loop of check_active_orders
FillOrder(m, upd, order_id) ==
    FillOrderMatched(
        Check(Check(Check(m, upd.type # "SmartCandle",
                          "SmartCandle::limit_order_filled: not yet implemented"),
                    upd.type # "Trade" \/ upd.quantity > 0,
                    "limit_order_filled: trade quantity > 0"),
              upd.type # "Trade" \/ remaining_quantity(m.active_limit_orders[order_id]) > 0,
              "limit_order_filled: remaining_quantity > 0"),
        upd, m.active_limit_orders[order_id])

RECURSIVE FillLoop(_, _, _)
FillLoop(m, upd, iteration) ==
    IF iteration = <<>> \/ m.panic # NoPanic THEN m
    ELSE FillLoop(FillOrder(m, upd, Head(iteration)), upd, Tail(iteration))

RECURSIVE RemoveExecuted(_)
RemoveExecuted(m) ==
    IF m.ids_to_remove = <<>> \/ m.panic # NoPanic THEN m
    ELSE RemoveExecuted(
            remove_executed_order_from_active([m EXCEPT !.ids_to_remove = Tail(@)],
                                              Head(m.ids_to_remove)))

DebugAssertOrderMargin(m, msg) ==
    DebugCheck(m, OrderMarginBalance(m) = OrderMarginOf(m), msg)

\* Exchange::check_active_orders; iteration is the order in which the map of the
\* active orders hands out its values; the updates returned are m.order_updates
check_active_orders(m, upd, iteration) ==
    DebugAssertOrderMargin(
        AssertOrderBook(
            RemoveExecuted(
                FillLoop(
                    Check(m, m.order_margin = m.active_limit_orders,
                          "check_active_orders: assert_eq order_margin.active_limit_orders"),
                    upd, iteration))),
        "check_active_orders: debug_assert_eq order margin at the end")

\* the iteration orders of a map: the sequences that list its keys once each
Iterations(f) ==
    {seq \in [1 .. Cardinality(DOMAIN f) -> DOMAIN f] :
        \A i, j \in DOMAIN seq : i # j => seq[i] # seq[j]}

\* ------------------------------------------------------- public operations
\* the exchange at the start of a call, with the locals of the call
Cur ==
    [market_state |-> market_state,
     next_order_id |-> next_order_id,
     transaction_accounting |-> transaction_accounting,
     position |-> position,
     active_limit_orders |-> active_limit_orders,
     lookup_order_nonce_from_user_order_id |-> lookup_order_nonce_from_user_order_id,
     order_margin |-> order_margin,
     debug_assertions |-> debug_assertions,
     panic |-> panic,
     error |-> "Ok",
     order_updates |-> <<>>,
     ids_to_remove |-> <<>>]

Result(op, args, status, updates, order_id) ==
    [op |-> op, args |-> args, status |-> status, updates |-> updates, order_id |-> order_id]

StatusOf(m) == IF m.panic # NoPanic THEN "Panic" ELSE m.error

\* the call returns (or aborts) with the exchange as in after
Return(after, op, args, order_id) ==
    \E m \in {after} :
        /\ market_state' = m.market_state
        /\ next_order_id' = m.next_order_id
        /\ transaction_accounting' = m.transaction_accounting
        /\ position' = m.position
        /\ active_limit_orders' = m.active_limit_orders
        /\ lookup_order_nonce_from_user_order_id' = m.lookup_order_nonce_from_user_order_id
        /\ order_margin' = m.order_margin
        /\ debug_assertions' = debug_assertions
        /\ quantity_filter' = quantity_filter
        /\ panic' = m.panic
        /\ result' = Result(op, args, StatusOf(m), m.order_updates, order_id)
        /\ last_order_id' = IF StatusOf(m) = "Ok" /\ order_id >= 0
                            THEN order_id ELSE last_order_id
        /\ closed_order_ids' =
              IF StatusOf(m) = "Ok"
              THEN closed_order_ids
                      \cup ((DOMAIN active_limit_orders) \ (DOMAIN m.active_limit_orders))
              ELSE closed_order_ids

\* return Err(error)
Err(m, error) == [m EXCEPT !.error = error]

\* return Ok(value): the value reaches the caller unless the call aborted or
\* returned an error before
Returning(m, value) ==
    IF m.panic # NoPanic \/ m.error # "Ok" THEN m ELSE [m EXCEPT !.order_updates = value]

\* MarketOrder<Pending>: the new order with the meta data of the exchange
MarketOrderPending(side, quantity, id, ts_ns_exchange_received) ==
    [side |-> side, quantity |-> quantity, id |-> id,
     ts_ns_exchange_received |-> ts_ns_exchange_received]

\* MarketOrder::into_filled
into_filled(order, fill_price, ts_ns_executed) ==
    [side |-> order.side, quantity |-> order.quantity, id |-> order.id,
     ts_ns_exchange_received |-> order.ts_ns_exchange_received,
     ts_ns_executed |-> ts_ns_executed,
     avg_fill_price |-> fill_price,
     filled_quantity |-> order.quantity]

\* fault: the counter is read but not incremented
NextOrderIdStuck(m) == m

\* Exchange::next_order_id
NextOrderId(m) == [m EXCEPT !.next_order_id = @ + 1]

\* the active orders the update fills, as the call finds them
Crossed(upd) ==
    {id \in DOMAIN active_limit_orders :
        limit_order_filled(upd, active_limit_orders[id]) # None}

\* what the properties read of an update_state call: the timestamp, the kind
\* of the update, the orders it fills, and for a trade or a candle the update
UpdateStateArgs(timestamp_ns, upd) ==
    IF upd.type \in {"Trade", "SmartCandle"}
    THEN <<timestamp_ns, upd.type, Crossed(upd), upd>>
    ELSE <<timestamp_ns, upd.type, Crossed(upd)>>

\* fault: the orders are matched before the maintenance margin error returns
UpdateStateValidMatchFirst(m, timestamp_ns, upd) ==
    IF check_maintenance_margin(m.market_state, m.position) # "Ok"
    THEN \E iteration \in Iterations(m.active_limit_orders) :
            Return(Err(check_active_orders(m, upd, iteration),
                       check_maintenance_margin(m.market_state, m.position)),
                   "update_state", UpdateStateArgs(timestamp_ns, upd), -1)
    ELSE \E iteration \in Iterations(m.active_limit_orders) :
            Return(check_active_orders(m, upd, iteration),
                   "update_state", UpdateStateArgs(timestamp_ns, upd), -1)

\* update_state after market_state.update_state succeeded
UpdateStateValid(m, timestamp_ns, upd) ==
    IF check_maintenance_margin(m.market_state, m.position) # "Ok"
    THEN Return(Err(m, check_maintenance_margin(m.market_state, m.position)),
                "update_state", UpdateStateArgs(timestamp_ns, upd), -1)
    ELSE \E iteration \in Iterations(m.active_limit_orders) :
            Return(check_active_orders(m, upd, iteration),
                   "update_state", UpdateStateArgs(timestamp_ns, upd), -1)

\* Exchange::update_state
update_state(timestamp_ns, upd) ==
    IF validate_market_update(upd) # "Ok"
    THEN Return(Err(Cur, validate_market_update(upd)),
                "update_state", UpdateStateArgs(timestamp_ns, upd), -1)
    ELSE UpdateStateValid(
            [Cur EXCEPT !.market_state = MarketStateUpdate(@, timestamp_ns, upd)],
            timestamp_ns, upd)

\* update_state with a quote drawn from the given inputs
UpdateStateBbaOf(max_step, timestamps, prices) ==
    /\ panic = NoPanic
    /\ market_state.step < max_step
    /\ \E timestamp_ns \in timestamps, bid \in prices, ask \in prices :
          update_state(timestamp_ns, Bba(bid, ask))

UpdateStateBba == UpdateStateBbaOf(MaxStep, Timestamps, Prices)

\* update_state with a trade drawn from the given inputs
UpdateStateTradeOf(max_step, timestamps, prices, quantities) ==
    /\ panic = NoPanic
    /\ market_state.step < max_step
    /\ \E timestamp_ns \in timestamps, price \in prices, quantity \in quantities,
          side \in Sides :
          update_state(timestamp_ns, Trade(price, quantity, side))

UpdateStateTrade == UpdateStateTradeOf(MaxStep, Timestamps, Prices, 1 .. max_quantity)

\* the slices of one or two taker trades over the inputs
TakerTrades(prices, quantities) ==
    UNION {[1 .. n -> {Trade(price, quantity, side) :
                          price \in prices, quantity \in quantities, side \in Sides}] :
              n \in 1 .. 2}

\* update_state with a candle built from trades and a valid quote drawn from
\* the given inputs
UpdateStateSmartCandleOf(max_step, timestamps, prices, quantities) ==
    /\ panic = NoPanic
    /\ market_state.step < max_step
    /\ \E timestamp_ns \in timestamps, bid \in prices, ask \in prices,
          taker_trades \in TakerTrades(prices, quantities) :
          /\ bid < ask
          /\ update_state(timestamp_ns, SmartCandleNew(taker_trades, Bba(bid, ask)))

\* fault: the order is settled without the risk check
SubmitMarketOrderPendingUnchecked(m, side, quantity, fill_price) ==
    Return(Returning(settle_filled_market_order(m, side, quantity, fill_price),
                     <<into_filled(MarketOrderPending(side, quantity,
                                                      m.next_order_id - 1,
                                                      m.market_state.current_ts_ns),
                                   fill_price, m.market_state.current_ts_ns)>>),
           "submit_market_order", <<side, quantity>>, m.next_order_id - 1)

\* submit_market_order once the order has its id; m.next_order_id - 1 is that id
SubmitMarketOrderPending(m, side, quantity, fill_price) ==
    IF check_market_order(m.position, net_balance(m, USER_POSITION_MARGIN_ACCOUNT),
                          side, quantity, fill_price,
                          net_balance(m, USER_WALLET_ACCOUNT)) # "Ok"
    THEN Return(Err(m, check_market_order(m.position,
                                          net_balance(m, USER_POSITION_MARGIN_ACCOUNT),
                                          side, quantity, fill_price,
                                          net_balance(m, USER_WALLET_ACCOUNT))),
                "submit_market_order", <<side, quantity>>, m.next_order_id - 1)
    ELSE Return(Returning(settle_filled_market_order(m, side, quantity, fill_price),
                          <<into_filled(MarketOrderPending(side, quantity,
                                                           m.next_order_id - 1,
                                                           m.market_state.current_ts_ns),
                                        fill_price, m.market_state.current_ts_ns)>>),
                "submit_market_order", <<side, quantity>>, m.next_order_id - 1)

\* fault: the id is drawn before the quantity filter runs
submit_market_order_id_first(side, quantity) ==
    IF QuantityFilterCheck(quantity) # "Ok"
    THEN Return(Err(NextOrderId(Cur), QuantityFilterCheck(quantity)),
                "submit_market_order", <<side, quantity>>, -1)
    ELSE SubmitMarketOrderPending(NextOrderId(Cur), side, quantity,
                                  IF side = Buy THEN market_state.ask ELSE market_state.bid)

\* Exchange::submit_market_order
submit_market_order(side, quantity) ==
    IF QuantityFilterCheck(quantity) # "Ok"
    THEN Return(Err(Cur, QuantityFilterCheck(quantity)),
                "submit_market_order", <<side, quantity>>, -1)
    ELSE SubmitMarketOrderPending(NextOrderId(Cur), side, quantity,
                                  IF side = Buy THEN market_state.ask ELSE market_state.bid)

\* submit_market_order with an order drawn from the given inputs
SubmitMarketOrderOf(max_order_id, quantities) ==
    /\ panic = NoPanic
    /\ next_order_id < max_order_id
    /\ \E side \in Sides, quantity \in quantities : submit_market_order(side, quantity)

SubmitMarketOrder == SubmitMarketOrderOf(MaxOrderId, Quantities)

\* the post-only check of submit_limit_order
PostOnlyCheck(ms, side, limit_price) ==
    IF side = Buy /\ limit_price >= ms.ask THEN "LimitPriceAboveAsk"
    ELSE IF side = Sell /\ limit_price <= ms.bid THEN "LimitPriceBelowBid"
    ELSE "Ok"

\* fault: the order is appended without the risk check
SubmitLimitOrderPendingUnchecked(m, order) ==
    IF PostOnlyCheck(m.market_state, order.side, order.limit_price) # "Ok"
    THEN Return(Err(m, PostOnlyCheck(m.market_state, order.side, order.limit_price)),
                "submit_limit_order", <<order.side, order.limit_price, order.quantity>>,
                order.id)
    ELSE Return(append_limit_order(m, order),
                "submit_limit_order", <<order.side, order.limit_price, order.quantity>>,
                order.id)

\* submit_limit_order once the order has its id
SubmitLimitOrderPending(m, order) ==
    IF PostOnlyCheck(m.market_state, order.side, order.limit_price) # "Ok"
    THEN Return(Err(m, PostOnlyCheck(m.market_state, order.side, order.limit_price)),
                "submit_limit_order", <<order.side, order.limit_price, order.quantity>>,
                order.id)
    ELSE IF check_limit_order(m.position, order, net_balance(m, USER_WALLET_ACCOUNT),
                              m.order_margin) # "Ok"
    THEN Return(Err(m, check_limit_order(m.position, order,
                                         net_balance(m, USER_WALLET_ACCOUNT),
                                         m.order_margin)),
                "submit_limit_order", <<order.side, order.limit_price, order.quantity>>,
                order.id)
    ELSE Return(append_limit_order(m, order),
                "submit_limit_order", <<order.side, order.limit_price, order.quantity>>,
                order.id)

\* Exchange::submit_limit_order
submit_limit_order(side, limit_price, quantity, user_order_id) ==
    IF QuantityFilterCheck(quantity) # "Ok"
    THEN Return(Err(Cur, QuantityFilterCheck(quantity)),
                "submit_limit_order", <<side, limit_price, quantity>>, -1)
    ELSE IF PriceFilterCheck(limit_price) # "Ok"
    THEN Return(Err(Cur, PriceFilterCheck(limit_price)),
                "submit_limit_order", <<side, limit_price, quantity>>, -1)
    ELSE SubmitLimitOrderPending(
            NextOrderId(Cur),
            LimitOrder(next_order_id, user_order_id, side, limit_price, quantity))

\* submit_limit_order with an order drawn from the given inputs
SubmitLimitOrderOf(max_order_id, prices, quantities, user_order_ids) ==
    /\ panic = NoPanic
    /\ next_order_id < max_order_id
    /\ \E side \in Sides, limit_price \in prices, quantity \in quantities,
          user_order_id \in user_order_ids :
          submit_limit_order(side, limit_price, quantity, user_order_id)

SubmitLimitOrder == SubmitLimitOrderOf(MaxOrderId, Prices, Quantities, UserOrderIds)

\* Exchange::cancel_limit_order as a public operation
CancelLimitOrderOf(max_order_id) ==
    /\ panic = NoPanic
    /\ \E order_id \in 0 .. (max_order_id - 1) :
          Return(Returning(cancel_limit_order(Cur, order_id),
                           <<active_limit_orders[order_id]>>),
                 "cancel_limit_order", <<order_id>>, -1)

CancelLimitOrder == CancelLimitOrderOf(MaxOrderId)

\* Exchange::cancel_order_by_user_id
cancel_order_by_user_id(user_order_id) ==
    IF user_order_id \notin DOMAIN lookup_order_nonce_from_user_order_id
    THEN Return(Err(Cur, "UserOrderIdNotFound"),
                "cancel_order_by_user_id", <<user_order_id>>, -1)
    ELSE Return(Returning(
                    cancel_limit_order(
                        [Cur EXCEPT !.lookup_order_nonce_from_user_order_id =
                                        MapRemove(@, user_order_id)],
                        lookup_order_nonce_from_user_order_id[user_order_id]),
                    <<active_limit_orders[
                          lookup_order_nonce_from_user_order_id[user_order_id]]>>),
                "cancel_order_by_user_id", <<user_order_id>>, -1)

CancelOrderByUserIdOf(user_order_ids) ==
    /\ panic = NoPanic
    /\ \E user_order_id \in user_order_ids : cancel_order_by_user_id(user_order_id)

CancelOrderByUserId == CancelOrderByUserIdOf(UserOrderIds)

\* Exchange::new
Init ==
    /\ market_state = [bid |-> 0, ask |-> 0, current_ts_ns |-> 0, step |-> 0]
    /\ next_order_id = 0
    /\ transaction_accounting =
          [a \in Accounts |-> IF a = USER_WALLET_ACCOUNT THEN starting_wallet_balance ELSE 0]
    /\ position = Neutral
    /\ active_limit_orders = EmptyMap
    /\ lookup_order_nonce_from_user_order_id = EmptyMap
    /\ order_margin = EmptyMap
    /\ debug_assertions \in BOOLEAN
    /\ panic = NoPanic
    /\ result = Result("new", <<>>, "Ok", <<>>, -1)
    /\ last_order_id = -1
    /\ closed_order_ids = {}
    /\ quantity_filter = QuantityFilterNew(None, Some(max_quantity), 1)

Next ==
    \/ SubmitLimitOrder
    \/ CancelLimitOrder
    \/ CancelOrderByUserId
    \/ SubmitMarketOrder
    \/ UpdateStateBba
    \/ UpdateStateTrade

Spec == Init /\ [][Next]_vars

\* ------------------------------------------ three orders from smaller inputs
\* the same exchange and the same operations, with one more order id and the
\* orders and updates drawn from fewer prices, one quantity, one user order id
\* and one timestamp
ThreeMaxOrderId == 3
ThreeNumPrices == 2
ThreeMaxQty == 1
ThreeMaxStep == 2

ThreePrices == {(300 + i) * Scale : i \in 0 .. (ThreeNumPrices - 1)}
ThreeQuantities == 1 .. ThreeMaxQty

NextThreeOrders ==
    \/ SubmitLimitOrderOf(ThreeMaxOrderId, ThreePrices, ThreeQuantities, {0})
    \/ CancelLimitOrderOf(ThreeMaxOrderId)
    \/ CancelOrderByUserIdOf({0})
    \/ SubmitMarketOrderOf(ThreeMaxOrderId, ThreeQuantities)
    \/ UpdateStateBbaOf(ThreeMaxStep, {0}, ThreePrices)
    \/ UpdateStateTradeOf(ThreeMaxStep, {0}, ThreePrices, ThreeQuantities)

SpecThreeOrders == Init /\ [][NextThreeOrders]_vars

\* the exchange with three market orders of one or two units under changing
\* quotes: a position built by two fills and closed by the third
NextThreeMarketOrders ==
    \/ SubmitMarketOrderOf(ThreeMaxOrderId, 1 .. max_quantity)
    \/ UpdateStateBbaOf(ThreeMaxStep, {0}, Prices)

SpecThreeMarketOrders == Init /\ [][NextThreeMarketOrders]_vars

\* ------------------------------------------- Trade::limit_order_filled alone
\* the trades and the pending limit orders the function is applied to; the two
\* assertions of the function hold of them
Trades == {Trade(price, quantity, side) :
              price \in Prices, quantity \in Quantities, side \in Sides}

PendingLimitOrders ==
    {order \in {[LimitOrder(0, 0, side, limit_price, quantity)
                     EXCEPT !.cumulative_qty = cumulative_qty] :
                    side \in Sides, limit_price \in Prices, quantity \in Quantities,
                    cumulative_qty \in 0 .. (MaxQty - 1)} :
        remaining_quantity(order) > 0}

InitLimitOrderFilled ==
    /\ market_state = [bid |-> 0, ask |-> 0, current_ts_ns |-> 0, step |-> 0]
    /\ next_order_id = 0
    /\ transaction_accounting =
          [a \in Accounts |-> IF a = USER_WALLET_ACCOUNT THEN starting_wallet_balance ELSE 0]
    /\ position = Neutral
    /\ active_limit_orders = EmptyMap
    /\ lookup_order_nonce_from_user_order_id = EmptyMap
    /\ order_margin = EmptyMap
    /\ debug_assertions \in BOOLEAN
    /\ panic = NoPanic
    /\ last_order_id = -1
    /\ closed_order_ids = {}
    /\ quantity_filter = QuantityFilterNew(None, Some(max_quantity), 1)
    /\ \E trade \in Trades, order \in PendingLimitOrders :
          result = Result("limit_order_filled", <<trade, order>>, "Pending", <<>>, -1)

\* trade.limit_order_filled(&order)
ApplyLimitOrderFilled ==
    /\ result.op = "limit_order_filled"
    /\ result.status = "Pending"
    /\ result' = [result EXCEPT
                     !.status = "Ok",
                     !.updates = <<limit_order_filled(result.args[1], result.args[2])>>]
    /\ UNCHANGED <<market_state, next_order_id, transaction_accounting, position,
                   active_limit_orders, lookup_order_nonce_from_user_order_id,
                   order_margin, debug_assertions, panic, last_order_id,
                   closed_order_ids, quantity_filter>>

SpecLimitOrderFilled == InitLimitOrderFilled /\ [][ApplyLimitOrderFilled]_vars

\* ------------------------------------------- Position::change_position alone
\* the exchange as constructed, before any call
Fresh ==
    [market_state |-> [bid |-> 0, ask |-> 0, current_ts_ns |-> 0, step |-> 0],
     next_order_id |-> 0,
     transaction_accounting |->
        [a \in Accounts |-> IF a = USER_WALLET_ACCOUNT THEN starting_wallet_balance ELSE 0],
     position |-> Neutral,
     active_limit_orders |-> EmptyMap,
     lookup_order_nonce_from_user_order_id |-> EmptyMap,
     order_margin |-> EmptyMap,
     debug_assertions |-> TRUE,
     panic |-> NoPanic,
     error |-> "Ok",
     order_updates |-> <<>>,
     ids_to_remove |-> <<>>]

\* the position and ledger the function is applied to: no position, or a
\* position that change_position opened on the new ledger
OpenedPositions ==
    {Fresh} \cup {change_position(Fresh, quantity, entry_price, side) :
                     quantity \in Quantities, entry_price \in Prices, side \in Sides}

InitChangePosition ==
    /\ market_state = Fresh.market_state
    /\ next_order_id = 0
    /\ active_limit_orders = EmptyMap
    /\ lookup_order_nonce_from_user_order_id = EmptyMap
    /\ order_margin = EmptyMap
    /\ debug_assertions \in BOOLEAN
    /\ last_order_id = -1
    /\ closed_order_ids = {}
    /\ quantity_filter = QuantityFilterNew(None, Some(max_quantity), 1)
    /\ \E m \in OpenedPositions :
          /\ m.panic = NoPanic
          /\ panic = NoPanic
          /\ position = m.position
          /\ transaction_accounting = m.transaction_accounting
    /\ \E filled_qty \in Quantities, fill_price \in Prices, side \in Sides :
          result = Result("change_position", <<filled_qty, fill_price, side>>,
                          "Pending", <<>>, -1)

\* position.change_position(filled_qty, fill_price, side, ..)
ApplyChangePosition ==
    /\ result.op = "change_position"
    /\ result.status = "Pending"
    /\ Return(change_position(Cur, result.args[1], result.args[2], result.args[3]),
              "change_position", result.args, -1)

SpecChangePosition == InitChangePosition /\ [][ApplyChangePosition]_vars

\* -------------------------------------------- Position::unrealized_pnl alone
\* the exchange holds no position or one that change_position opened on the
\* new ledger; nothing has been called yet
InitOpenedPosition ==
    /\ market_state = Fresh.market_state
    /\ next_order_id = 0
    /\ active_limit_orders = EmptyMap
    /\ lookup_order_nonce_from_user_order_id = EmptyMap
    /\ order_margin = EmptyMap
    /\ debug_assertions \in BOOLEAN
    /\ last_order_id = -1
    /\ closed_order_ids = {}
    /\ quantity_filter = QuantityFilterNew(None, Some(max_quantity), 1)
    /\ \E m \in OpenedPositions :
          /\ m.panic = NoPanic
          /\ panic = NoPanic
          /\ position = m.position
          /\ transaction_accounting = m.transaction_accounting

InitUnrealizedPnl ==
    /\ InitOpenedPosition
    /\ \E bid \in Prices, ask \in Prices :
          result = Result("unrealized_pnl", <<bid, ask>>, "Pending", <<>>, -1)

\* position.unrealized_pnl(bid, ask)
ApplyUnrealizedPnl ==
    /\ result.op = "unrealized_pnl"
    /\ result.status = "Pending"
    /\ result' = [result EXCEPT
                     !.status = "Ok",
                     !.updates = <<unrealized_pnl(position, result.args[1],
                                                  result.args[2])>>]
    /\ UNCHANGED <<market_state, next_order_id, transaction_accounting, position,
                   active_limit_orders, lookup_order_nonce_from_user_order_id,
                   order_margin, debug_assertions, panic, last_order_id,
                   closed_order_ids, quantity_filter>>

SpecUnrealizedPnl == InitUnrealizedPnl /\ [][ApplyUnrealizedPnl]_vars

\* --------------------------------------------- the order margin calculator alone
\* the books the calculator is applied to: up to two unfilled pending orders
Books ==
    {EmptyMap}
        \cup {MapInsert(EmptyMap, 0, LimitOrder(0, 0, side, limit_price, quantity)) :
                 side \in Sides, limit_price \in Prices, quantity \in Quantities}
        \cup {MapInsert(MapInsert(EmptyMap, 0, LimitOrder(0, 0, order[1], order[2], order[3])),
                        1, LimitOrder(1, 0, other[1], other[2], other[3])) :
                 order \in Sides \X Prices \X Quantities,
                 other \in Sides \X Prices \X Quantities}

\* the positions the calculator is applied to
Positions ==
    {Neutral} \cup {PositionOf(kind, quantity, entry_price) :
                       kind \in {"Long", "Short"}, quantity \in Quantities,
                       entry_price \in Prices}

InitOrderMargin ==
    /\ market_state = Fresh.market_state
    /\ next_order_id = 0
    /\ transaction_accounting = Fresh.transaction_accounting
    /\ position = Neutral
    /\ active_limit_orders = EmptyMap
    /\ lookup_order_nonce_from_user_order_id = EmptyMap
    /\ order_margin = EmptyMap
    /\ debug_assertions \in BOOLEAN
    /\ panic = NoPanic
    /\ last_order_id = -1
    /\ closed_order_ids = {}
    /\ quantity_filter = QuantityFilterNew(None, Some(max_quantity), 1)
    /\ \E orders \in Books, pos \in Positions :
          result = Result("compute_order_margin", <<orders, pos>>, "Pending", <<>>, -1)

\* compute_order_margin for the orders and the position
ApplyOrderMargin ==
    /\ result.op = "compute_order_margin"
    /\ result.status = "Pending"
    /\ result' = [result EXCEPT
                     !.status = "Ok",
                     !.updates = <<compute_order_margin(result.args[1], result.args[2])>>]
    /\ UNCHANGED <<market_state, next_order_id, transaction_accounting, position,
                   active_limit_orders, lookup_order_nonce_from_user_order_id,
                   order_margin, debug_assertions, panic, last_order_id,
                   closed_order_ids, quantity_filter>>

SpecOrderMargin == InitOrderMargin /\ [][ApplyOrderMargin]_vars

\* ------------------------------------------------- the turnaround scenario
\* the exchange of the market-order tests: the default quantity filter, which
\* has no maximum, quotes of 100 and 101 and market orders of 9 and 18
ScenarioMaxOrderId == 3
ScenarioMaxStep == 2
ScenarioPrices == {100 * Scale, 101 * Scale}
ScenarioQuantities == {9, 18}

\* QuantityFilter::default
QuantityFilterDefault == QuantityFilterNew(None, None, 1)

\* Exchange::new with the default quantity filter
InitScenario ==
    /\ market_state = [bid |-> 0, ask |-> 0, current_ts_ns |-> 0, step |-> 0]
    /\ next_order_id = 0
    /\ transaction_accounting =
          [a \in Accounts |-> IF a = USER_WALLET_ACCOUNT THEN starting_wallet_balance ELSE 0]
    /\ position = Neutral
    /\ active_limit_orders = EmptyMap
    /\ lookup_order_nonce_from_user_order_id = EmptyMap
    /\ order_margin = EmptyMap
    /\ debug_assertions \in BOOLEAN
    /\ panic = NoPanic
    /\ result = Result("new", <<>>, "Ok", <<>>, -1)
    /\ last_order_id = -1
    /\ closed_order_ids = {}
    /\ quantity_filter = QuantityFilterDefault

NextScenario ==
    \/ SubmitMarketOrderOf(ScenarioMaxOrderId, ScenarioQuantities)
    \/ UpdateStateBbaOf(ScenarioMaxStep, {0}, ScenarioPrices)

SpecScenario == InitScenario /\ [][NextScenario]_vars

\* ------------------------------------------------ the round-trip scenario
\* the exchange of the linear futures tests: the default quantity filter,
\* quotes of 99 and 100 and market orders of 5 and 10
RoundTripMaxOrderId == 3
RoundTripMaxStep == 2
RoundTripPrices == {99 * Scale, 100 * Scale}
RoundTripQuantities == {5, 10}

NextRoundTrip ==
    \/ SubmitMarketOrderOf(RoundTripMaxOrderId, RoundTripQuantities)
    \/ UpdateStateBbaOf(RoundTripMaxStep, {0}, RoundTripPrices)

SpecRoundTrip == InitScenario /\ [][NextRoundTrip]_vars

\* ----------------------------------------------- the quantity filter alone
\* the arguments QuantityFilter::new and validate_order_quantity are applied
\* to: optional bounds and a tick size of 0 .. FilterMaxQty, quantities from
\* -1 to one above
FilterMaxQty == 2
OptionalQuantities == {None} \cup {Some(q) : q \in 0 .. FilterMaxQty}
FilterQuantities == (0 - 1) .. (FilterMaxQty + 1)

\* QuantityFilter::new; min_qty % tick_size is evaluated first and aborts on a
\* tick size of zero
QuantityFilter_new(min_quantity, max_qty, tick_size) ==
    IF min_quantity # None /\ tick_size = 0
    THEN "Panic"
    ELSE IF min_quantity # None /\ (min_quantity[1] % tick_size) # 0
    THEN "InvalidMinQuantity"
    ELSE IF tick_size = 0 THEN "InvalidTickSize"
    ELSE "Ok"

\* the filters QuantityFilter::new returns
QuantityFilters ==
    {filter \in {QuantityFilterNew(min_quantity, max_qty, tick_size) :
                    min_quantity \in OptionalQuantities,
                    max_qty \in OptionalQuantities,
                    tick_size \in 0 .. FilterMaxQty} :
        QuantityFilter_new(filter.min_quantity, filter.max_quantity,
                           filter.tick_size) = "Ok"}

\* a fresh exchange; either the arguments of a call of QuantityFilter::new, or
\* a filter that new returned as the filter of the exchange, with a quantity
\* to validate
InitQuantityFilter ==
    /\ market_state = Fresh.market_state
    /\ next_order_id = 0
    /\ transaction_accounting = Fresh.transaction_accounting
    /\ position = Neutral
    /\ active_limit_orders = EmptyMap
    /\ lookup_order_nonce_from_user_order_id = EmptyMap
    /\ order_margin = EmptyMap
    /\ debug_assertions \in BOOLEAN
    /\ panic = NoPanic
    /\ last_order_id = -1
    /\ closed_order_ids = {}
    /\ \/ /\ quantity_filter = QuantityFilterDefault
          /\ \E min_quantity \in OptionalQuantities, max_qty \in OptionalQuantities,
                tick_size \in 0 .. FilterMaxQty :
                result = Result("QuantityFilter::new",
                                <<min_quantity, max_qty, tick_size>>, "Pending", <<>>, -1)
       \/ /\ quantity_filter \in QuantityFilters
          /\ \E quantity \in FilterQuantities :
                result = Result("validate_order_quantity", <<quantity>>,
                                "Pending", <<>>, -1)

\* QuantityFilter::new for the arguments; the filter built becomes the
\* exchange's
ApplyQuantityFilterNew ==
    /\ result.op = "QuantityFilter::new"
    /\ result.status = "Pending"
    /\ result' = [result EXCEPT
                     !.status = QuantityFilter_new(result.args[1], result.args[2],
                                                   result.args[3])]
    /\ panic' = IF result'.status = "Panic"
                THEN "attempt to calculate the remainder with a divisor of zero"
                ELSE panic
    /\ quantity_filter' = IF result'.status = "Ok"
                          THEN QuantityFilterNew(result.args[1], result.args[2],
                                                 result.args[3])
                          ELSE quantity_filter
    /\ UNCHANGED <<market_state, next_order_id, transaction_accounting, position,
                   active_limit_orders, lookup_order_nonce_from_user_order_id,
                   order_margin, debug_assertions, last_order_id, closed_order_ids>>

\* validate_order_quantity of the exchange's filter for the quantity
ApplyValidateOrderQuantity ==
    /\ result.op = "validate_order_quantity"
    /\ result.status = "Pending"
    /\ result' = [result EXCEPT !.status = QuantityFilterCheck(result.args[1])]
    /\ UNCHANGED <<market_state, next_order_id, transaction_accounting, position,
                   active_limit_orders, lookup_order_nonce_from_user_order_id,
                   order_margin, debug_assertions, panic, last_order_id,
                   closed_order_ids, quantity_filter>>

NextQuantityFilter ==
    \/ ApplyQuantityFilterNew
    \/ ApplyValidateOrderQuantity

SpecQuantityFilter == InitQuantityFilter /\ [][NextQuantityFilter]_vars

\* --------------------------------------------- the partial-fill scenario
\* an exchange with the default quantity filter and a starting balance that
\* covers two orders of 10 @ 101; quotes of 99 and 100, limit orders of 10 at
\* 101, trades of 4 and 6 at 100 and 102
PartialFillMaxOrderId == 2
PartialFillMaxStep == 4
partial_fill_wallet_balance == 3000 * Scale
PartialFillQuotes == {99 * Scale, 100 * Scale}
PartialFillLimitPrices == {101 * Scale}
PartialFillTradePrices == {100 * Scale, 102 * Scale}
PartialFillOrderQuantities == {10}
PartialFillTradeQuantities == {4, 6}

\* Exchange::new with the default quantity filter and that starting balance
InitPartialFill ==
    /\ market_state = [bid |-> 0, ask |-> 0, current_ts_ns |-> 0, step |-> 0]
    /\ next_order_id = 0
    /\ transaction_accounting =
          [a \in Accounts |->
              IF a = USER_WALLET_ACCOUNT THEN partial_fill_wallet_balance ELSE 0]
    /\ position = Neutral
    /\ active_limit_orders = EmptyMap
    /\ lookup_order_nonce_from_user_order_id = EmptyMap
    /\ order_margin = EmptyMap
    /\ debug_assertions \in BOOLEAN
    /\ panic = NoPanic
    /\ result = Result("new", <<>>, "Ok", <<>>, -1)
    /\ last_order_id = -1
    /\ closed_order_ids = {}
    /\ quantity_filter = QuantityFilterDefault

NextPartialFill ==
    \/ SubmitLimitOrderOf(PartialFillMaxOrderId, PartialFillLimitPrices,
                          PartialFillOrderQuantities, {0})
    \/ CancelLimitOrderOf(PartialFillMaxOrderId)
    \/ UpdateStateBbaOf(PartialFillMaxStep, {0}, PartialFillQuotes)
    \/ UpdateStateTradeOf(PartialFillMaxStep, {0}, PartialFillTradePrices,
                          PartialFillTradeQuantities)

SpecPartialFill == InitPartialFill /\ [][NextPartialFill]_vars

\* ------------------------------------------------------ candles as updates
\* the exchange with limit orders and market orders of one unit, updated by
\* quotes and by candles of one or two trades of one unit
CandleMaxOrderId == 2
CandleMaxStep == 2
CandleNumPrices == 3
CandlePrices == {(300 + i) * Scale : i \in 0 .. (CandleNumPrices - 1)}

NextSmartCandle ==
    \/ SubmitLimitOrderOf(CandleMaxOrderId, CandlePrices, {1}, {0})
    \/ SubmitMarketOrderOf(CandleMaxOrderId, {1})
    \/ UpdateStateBbaOf(CandleMaxStep, {0}, CandlePrices)
    \/ UpdateStateSmartCandleOf(CandleMaxStep, {0}, CandlePrices, {1})

SpecSmartCandle == Init /\ [][NextSmartCandle]_vars

\* ------------------------------------------------- Exchange::detract_fee alone
\* the fees detract_fee is applied with: the maker fee as a rebate, no fee, and
\* the maker fee; the trade values are those of the orders
Fees == {0 - fee_maker, 0, fee_maker}
TradeValues == {Convert(quantity, price) : quantity \in Quantities, price \in Prices}

\* the ledger of a new exchange or of one with an opened position, and a trade
\* value and a fee
InitDetractFee ==
    /\ market_state = Fresh.market_state
    /\ next_order_id = 0
    /\ active_limit_orders = EmptyMap
    /\ lookup_order_nonce_from_user_order_id = EmptyMap
    /\ order_margin = EmptyMap
    /\ debug_assertions \in BOOLEAN
    /\ last_order_id = -1
    /\ closed_order_ids = {}
    /\ quantity_filter = QuantityFilterNew(None, Some(max_quantity), 1)
    /\ \E m \in OpenedPositions :
          /\ m.panic = NoPanic
          /\ panic = NoPanic
          /\ position = m.position
          /\ transaction_accounting = m.transaction_accounting
    /\ \E trade_value \in TradeValues, fee \in Fees :
          result = Result("detract_fee", <<trade_value, fee>>, "Pending", <<>>, -1)

\* Self::detract_fee(transaction_accounting, trade_value, fee, ..)
ApplyDetractFee ==
    /\ result.op = "detract_fee"
    /\ result.status = "Pending"
    /\ Return(detract_fee(Cur, result.args[1], result.args[2]),
              "detract_fee", result.args, -1)

SpecDetractFee == InitDetractFee /\ [][ApplyDetractFee]_vars

\* --------------------------------------------------------------- properties
Balance(account) == transaction_accounting[account]

Submissions == {"submit_market_order", "submit_limit_order"}
FilterErrors == {"QuantityTooLow", "QuantityTooHigh", "InvalidQuantityStepSize",
                 "InvalidTickSize"}
\* the last call returned Err
ReturnedErr == result.status \notin {"Ok", "Panic"}

\* C1 (ledger conservation): after any sequence of public operations, failed or
\* not, the net balances of the five accounts sum to starting_wallet_balance.
C1_LedgerConservation ==
    Balance(USER_WALLET_ACCOUNT) + Balance(USER_POSITION_MARGIN_ACCOUNT)
        + Balance(USER_ORDER_MARGIN_ACCOUNT) + Balance(EXCHANGE_FEE_ACCOUNT)
        + Balance(TREASURY_ACCOUNT) = starting_wallet_balance

\* a fee has been paid, a profit or loss realised, and margin is held
C1_Witness ==
    /\ Balance(EXCHANGE_FEE_ACCOUNT) > 0
    /\ Balance(TREASURY_ACCOUNT) # 0
    /\ Balance(USER_POSITION_MARGIN_ACCOUNT) > 0
    /\ panic = NoPanic

\* C2 (non-negative available balance): the USER_WALLET account never goes negative.
C2_WalletNonNegative == Balance(USER_WALLET_ACCOUNT) >= 0

\* C3 (order-margin agreement): after every public operation the balance of
\* USER_ORDER_MARGIN equals the order margin recomputed from the active limit
\* orders and the current position.
C3_OrderMarginAgreement ==
    panic = NoPanic =>
        Balance(USER_ORDER_MARGIN_ACCOUNT) = compute_order_margin(active_limit_orders, position)

\* C4 (position-margin agreement): whenever the position is Long or Short with
\* quantity q and entry price p, USER_POSITION_MARGIN holds q * p * init_margin_req.
C4_PositionMarginAgreement ==
    (panic = NoPanic /\ position.kind # "Neutral") =>
        Balance(USER_POSITION_MARGIN_ACCOUNT)
            = MulImr(Convert(position.quantity, position.entry_price))

\* C5 (empty book): in every reachable state, if there is no active limit order
\* then the balance of USER_ORDER_MARGIN is zero.
C5_EmptyBook ==
    (DOMAIN active_limit_orders = {}) => Balance(USER_ORDER_MARGIN_ACCOUNT) = 0

\* the last order of the book was cancelled while a position is open
C5_Witness ==
    /\ result.op \in {"cancel_limit_order", "cancel_order_by_user_id"}
    /\ result.status = "Ok"
    /\ DOMAIN active_limit_orders = {}
    /\ position.kind # "Neutral"

\* C6 (id monotonicity): every accepted order, market or limit, gets an id
\* strictly larger than the id of every order accepted before it and than the
\* id of every order in the book, so ids are never shared nor reused, also not
\* after a cancel or a fill; every order in the book is stored under its own id,
\* an id the counter has already passed.
C6_IdMonotonicity ==
    [][/\ (result'.op \in Submissions /\ result'.status = "Ok") =>
              /\ result'.order_id > last_order_id
              /\ last_order_id' = result'.order_id
              /\ \A id \in DOMAIN active_limit_orders : result'.order_id > id
       /\ \A id \in DOMAIN active_limit_orders' :
              /\ active_limit_orders'[id].id = id
              /\ id < next_order_id']_vars

\* a market order accepted after a limit order that is still active
C6_Witness ==
    /\ result.op = "submit_market_order"
    /\ result.status = "Ok"
    /\ result.order_id = 1
    /\ 0 \in DOMAIN active_limit_orders

\* C7 (atomicity of errors): an operation that returns an error leaves the
\* ledger, the position, the active limit orders, the user-id lookup and the
\* market state as they were before the call.
C7_ErrorLeavesStateUnchanged ==
    [][ReturnedErr' =>
          UNCHANGED <<transaction_accounting, position, active_limit_orders,
                      lookup_order_nonce_from_user_order_id, market_state>>]_vars

\* C8 as stated (the counter increments regardless): every call of
\* submit_market_order or submit_limit_order, accepted or rejected, advances the
\* next order id by exactly one.
C8_CounterAdvancesOnEverySubmission ==
    [][result'.op \in Submissions => next_order_id' = next_order_id + 1]_vars

\* C8 as amended: a submission that passes the quantity and price filters
\* advances the next order id by exactly one, whether it is then accepted or
\* rejected by the post-only check or the risk check; a submission the filters
\* reject leaves the counter as it was.
C8_CounterAdvancesPastFilters ==
    [][result'.op \in Submissions =>
          next_order_id' = IF result'.status \in FilterErrors
                           THEN next_order_id ELSE next_order_id + 1]_vars

\* a submission rejected by the risk check after an accepted one: both drew an id
C8_Witness ==
    /\ result.op \in Submissions
    /\ result.status = "NotEnoughAvailableBalance"
    /\ result.order_id = 1
    /\ next_order_id = 2

\* C9 (monotonic timestamps): update_state with a timestamp smaller than the one
\* of the previous update returns an error, leaves the market state alone and
\* matches no order, so current_ts_ns never decreases.
C9_MonotonicTimestamps ==
    [][/\ (result'.op = "update_state" /\ result'.args[1] < market_state.current_ts_ns) =>
              /\ result'.status \notin {"Ok", "Panic"}
              /\ result'.updates = <<>>
              /\ UNCHANGED market_state
       /\ market_state'.current_ts_ns >= market_state.current_ts_ns]_vars

\* C10 (post-only rejection): submit_limit_order returns GoodTillCrossingRejected
\* for a buy at or above the ask and for a sell at or below the bid, adds no order
\* and reserves no margin; other orders are not rejected by this check.
C10_GoodTillCrossingRejected ==
    [][(result'.op = "submit_limit_order" /\ result'.status \notin FilterErrors) =>
          IF \/ (result'.args[1] = Buy /\ result'.args[2] >= market_state.ask)
             \/ (result'.args[1] = Sell /\ result'.args[2] <= market_state.bid)
          THEN /\ result'.status = "GoodTillCrossingRejected"
               /\ UNCHANGED <<active_limit_orders, transaction_accounting>>
          ELSE result'.status \notin {"GoodTillCrossingRejected", "LimitPriceAboveAsk",
                                      "LimitPriceBelowBid"}]_vars

\* C11 (fill rule of a trade): for a trade and a pending limit order,
\* limit_order_filled returns Some(min(trade quantity, remaining quantity))
\* exactly when the trade is on the opposite side and its price is strictly
\* through the limit price (below a resting buy, above a resting sell), and
\* None otherwise, in particular at the limit price and for a same-side trade.
C11_TradeFillRule ==
    (result.op = "limit_order_filled" /\ result.status = "Ok") =>
        LET trade == result.args[1]
            order == result.args[2]
            filled == result.updates[1]
            through == IF order.side = Buy
                       THEN trade.side = Sell /\ trade.price < order.limit_price
                       ELSE trade.side = Buy /\ trade.price > order.limit_price
        IN /\ through =>
                  /\ filled # None
                  /\ filled[1] <= trade.quantity
                  /\ filled[1] <= order.quantity - order.cumulative_qty
                  /\ filled[1] \in {trade.quantity, order.quantity - order.cumulative_qty}
           /\ (~through) => filled = None
           /\ (trade.price = order.limit_price) => filled = None
           /\ (trade.side = order.side) => filled = None

\* a trade larger than what remains of a partially filled order takes the rest
C11_Witness ==
    /\ result.op = "limit_order_filled"
    /\ result.status = "Ok"
    /\ result.args[2].cumulative_qty > 0
    /\ result.updates[1] # None
    /\ result.updates[1][1] < result.args[1].quantity

OpenedQuantity(side, quantity) ==
    IF (side = Buy /\ position.kind = "Short") \/ (side = Sell /\ position.kind = "Long")
    THEN IF quantity > position.quantity THEN quantity - position.quantity ELSE 0
    ELSE quantity

ReleasedMargin(side, quantity) ==
    IF (side = Buy /\ position.kind = "Short") \/ (side = Sell /\ position.kind = "Long")
    THEN IF quantity > position.quantity
         THEN Balance(USER_POSITION_MARGIN_ACCOUNT)
         ELSE TruncDiv(quantity * position.entry_price * ImrNum, ImrDen)
    ELSE 0

PostOnlyErrors == {"LimitPriceAboveAsk", "LimitPriceBelowBid"}

\* the order margin required with one more order in the book
OrderMarginWith(side, limit_price, quantity) ==
    compute_order_margin(
        MapInsert(active_limit_orders, next_order_id,
                  LimitOrder(next_order_id, 0, side, limit_price, quantity)),
        position)

C16_CancelReleasesDifference ==
    [][/\ \A id \in DOMAIN active_limit_orders :
              compute_order_margin(MapRemove(active_limit_orders, id), position)
                  <= compute_order_margin(active_limit_orders, position)
       /\ (result'.op = "cancel_limit_order" /\ result'.status = "Ok") =>
              LET id == result'.args[1]
                  old == compute_order_margin(active_limit_orders, position)
                  new == compute_order_margin(active_limit_orders', position')
              IN /\ id \in DOMAIN active_limit_orders
                 /\ result'.updates = <<active_limit_orders[id]>>
                 /\ active_limit_orders' = MapRemove(active_limit_orders, id)
                 /\ new <= old
                 /\ Balance(USER_ORDER_MARGIN_ACCOUNT) = old
                 /\ Balance(USER_ORDER_MARGIN_ACCOUNT)' = new
                 /\ Balance(USER_WALLET_ACCOUNT)'
                        = Balance(USER_WALLET_ACCOUNT) + (old - new)
                 /\ Balance(USER_POSITION_MARGIN_ACCOUNT)'
                        = Balance(USER_POSITION_MARGIN_ACCOUNT)
                 /\ Balance(EXCHANGE_FEE_ACCOUNT)' = Balance(EXCHANGE_FEE_ACCOUNT)
                 /\ Balance(TREASURY_ACCOUNT)' = Balance(TREASURY_ACCOUNT)
                 /\ UNCHANGED <<position, market_state, next_order_id>>]_vars

\* a cancel that released part of the order margin: another order still
\* holds the rest
C16_Witness ==
    /\ result.op = "cancel_limit_order"
    /\ result.status = "Ok"
    /\ DOMAIN active_limit_orders # {}
    /\ Balance(USER_ORDER_MARGIN_ACCOUNT) > 0
    /\ result.updates[1].id = result.args[1]
    /\ result.updates[1].quantity * result.updates[1].limit_price
           > Balance(USER_ORDER_MARGIN_ACCOUNT)

\* a limit order submit_limit_order would accept in the current state, the
\* exchange after that call, and after cancel_limit_order of the order
NewLimitOrders ==
    {LimitOrder(next_order_id, user_order_id, side, limit_price, quantity) :
        user_order_id \in {MaxUserOrderId}, side \in Sides, limit_price \in Prices,
        quantity \in Quantities}

Accepted(order) ==
    /\ QuantityFilterCheck(order.quantity) = "Ok"
    /\ PriceFilterCheck(order.limit_price) = "Ok"
    /\ PostOnlyCheck(market_state, order.side, order.limit_price) = "Ok"
    /\ check_limit_order(position, order, Balance(USER_WALLET_ACCOUNT), order_margin) = "Ok"
    /\ append_limit_order(NextOrderId(Cur), order).panic = NoPanic

AfterSubmit(order) == append_limit_order(NextOrderId(Cur), order)

AfterCancel(order) == cancel_limit_order(AfterSubmit(order), order.id)

\* C17 (submit then cancel is a round trip): in every reachable state, for
\* every limit order submit_limit_order accepts, cancelling that order right
\* away succeeds and restores the five ledger balances, the position and the
\* active orders to their values before the submit.
C17_SubmitCancelRoundTrip ==
    panic = NoPanic =>
        \A order \in NewLimitOrders :
            Accepted(order) =>
                \A m \in {AfterCancel(order)} :
                    /\ m.panic = NoPanic
                    /\ m.error = "Ok"
                    /\ m.transaction_accounting = transaction_accounting
                    /\ m.position = position
                    /\ m.active_limit_orders = active_limit_orders

\* C18 (a fully filled or cancelled limit order is terminal): once a limit order
\* has been fully filled or cancelled, its id is never again in the active
\* set, no later update_state emits an update for it, and every later
\* cancel_limit_order on its id returns OrderIdNotFound
C18_FilledOrCancelledIsTerminal ==
    [][\A id \in closed_order_ids :
          /\ id \notin DOMAIN active_limit_orders'
          /\ result'.op = "update_state" =>
                \A i \in DOMAIN result'.updates : result'.updates[i].order.id # id
          /\ (result'.op = "cancel_limit_order" /\ result'.args[1] = id) =>
                result'.status = "OrderIdNotFound"]_vars

\* C19 (maintenance margin failure): when the maintenance margin check fails in
\* an update_state call whose update is valid, the call returns the maintenance
\* margin error, emits no order update and fills no resting order, and leaves
\* the position, every ledger balance and the active limit orders as they were
C19_MaintenanceMarginFailure ==
    [][(/\ result'.op = "update_state"
        /\ result'.status \in {"Ok", "Panic", "MaintenanceMarginViolated"}
        /\ check_maintenance_margin(market_state', position) # "Ok") =>
          /\ result'.status = "MaintenanceMarginViolated"
          /\ result'.updates = <<>>
          /\ UNCHANGED <<position, transaction_accounting, active_limit_orders,
                         lookup_order_nonce_from_user_order_id, order_margin,
                         next_order_id>>]_vars

\* update_state returned the maintenance margin error for a trade that crosses
\* a resting order, and the order rests as before
C19_Witness ==
    /\ result.op = "update_state"
    /\ result.status = "MaintenanceMarginViolated"
    /\ result.args[2] = "Trade"
    /\ result.args[3] # {}
    /\ \A id \in result.args[3] :
          /\ id \in DOMAIN active_limit_orders
          /\ active_limit_orders[id].cumulative_qty = 0
    /\ position.kind # "Neutral"

\* the direction a fill on the side adds to
KindOf(side) == IF side = Buy THEN "Long" ELSE "Short"
OppositeKind(kind) == IF kind = "Long" THEN "Short" ELSE "Long"

\* pnl of closing quantity of a position of the kind, entered at entry_price,
\* at the price
ClosingPnl(kind, entry_price, price, quantity) ==
    IF kind = "Long" THEN Convert(quantity, price) - Convert(quantity, entry_price)
    ELSE Convert(quantity, entry_price) - Convert(quantity, price)

\* C20 (change_position table): a call of change_position(q', p, side) that
\* returns leaves: from Neutral a Long (Buy) or Short (Sell) of q' at p; for a
\* fill in the direction of the position the quantity q + q' at the entry
\* price (q*e + q'*p) / (q + q') with q'*p*imr moved from the wallet to the
\* position margin; for an opposing fill with q' < q the same kind with q - q'
\* at the unchanged entry price, q'*e*imr moved from the position margin to the
\* wallet and the pnl settled between wallet and treasury; with q' = q Neutral;
\* with q' > q the opposite kind with q' - q at p. A Long or Short has a
\* quantity above zero.
C20_ChangePositionTable ==
    [][(result.status = "Pending" /\ result.op = "change_position"
            /\ panic' = NoPanic) =>
          \E q1 \in {result.args[1]}, p \in {result.args[2]}, side \in {result.args[3]},
             q \in {position.quantity}, e \in {position.entry_price} :
            /\ position'.kind # "Neutral" => position'.quantity > 0
            /\ position.kind = "Neutral" =>
                  position' = PositionOf(KindOf(side), q1, p)
            /\ (position.kind # "Neutral" /\ position.kind = KindOf(side)) =>
                  /\ position' = PositionOf(position.kind, q + q1,
                                            TruncDiv((q * e) + (q1 * p), q + q1))
                  /\ Balance(USER_POSITION_MARGIN_ACCOUNT)' =
                        Balance(USER_POSITION_MARGIN_ACCOUNT) + MulImr(Convert(q1, p))
                  /\ Balance(USER_WALLET_ACCOUNT)' =
                        Balance(USER_WALLET_ACCOUNT) - MulImr(Convert(q1, p))
                  /\ Balance(TREASURY_ACCOUNT)' = Balance(TREASURY_ACCOUNT)
            /\ (position.kind # "Neutral" /\ position.kind # KindOf(side) /\ q1 < q) =>
                  /\ position' = PositionOf(position.kind, q - q1, e)
                  /\ Balance(USER_POSITION_MARGIN_ACCOUNT)' =
                        Balance(USER_POSITION_MARGIN_ACCOUNT) - MulImr(Convert(q1, e))
                  /\ Balance(TREASURY_ACCOUNT)' =
                        Balance(TREASURY_ACCOUNT) - ClosingPnl(position.kind, e, p, q1)
                  /\ Balance(USER_WALLET_ACCOUNT)' =
                        Balance(USER_WALLET_ACCOUNT) + MulImr(Convert(q1, e))
                            + ClosingPnl(position.kind, e, p, q1)
            /\ (position.kind # "Neutral" /\ position.kind # KindOf(side) /\ q1 = q) =>
                  position' = Neutral
            /\ (position.kind # "Neutral" /\ position.kind # KindOf(side) /\ q1 > q) =>
                  position' = PositionOf(OppositeKind(position.kind), q1 - q, p)]_vars

\* the exchange after the two calls change_position(q, p, side), which closes
\* the position of size q, and change_position(q, p, side), which opens the
\* opposite one
CloseThenOpen(m, q, p, side) ==
    change_position(change_position(m, q, p, side), q, p, side)

\* C21 (turnaround equivalence): from a Long or Short of size q, one opposing
\* fill of 2q at p leaves the position and every ledger balance as the two
\* fills of q at p do, the first closing the position and the second opening
\* the opposite one; the one call aborts exactly when the pair does
C21_TurnaroundEquivalence ==
    [][(/\ result.op = "change_position" /\ result.status = "Pending"
        /\ position.kind # "Neutral"
        /\ position.kind # KindOf(result.args[3])
        /\ result.args[1] = 2 * position.quantity) =>
          \A m \in {CloseThenOpen(Cur, position.quantity, result.args[2],
                                   result.args[3])} :
              /\ position' = m.position
              /\ transaction_accounting' = m.transaction_accounting
              /\ panic' = m.panic]_vars

\* a fill of twice the size of the position turned it around: the opposite
\* position of half the fill stands at the fill price and a loss or profit
\* was settled with the treasury
C21_Witness ==
    /\ result.op = "change_position"
    /\ result.status = "Ok"
    /\ position.kind = KindOf(result.args[3])
    /\ 2 * position.quantity = result.args[1]
    /\ position.entry_price = result.args[2]
    /\ Balance(TREASURY_ACCOUNT) # 0

\* C22 (open and close): when the first order of the exchange opened a
\* position from Neutral and a market order then closes all of it, the
\* position is Neutral, the position margin is zero, the realised pnl of
\* q * (exit - entry) for a Long and q * (entry - exit) for a Short has been
\* settled with the treasury and the wallet is the starting balance plus that
\* pnl minus the fees paid; at exit = entry the wallet has lost the fees only
\* and the treasury is unchanged
C22_OpenCloseRoundTrip ==
    [][(/\ next_order_id = 1
        /\ position.kind # "Neutral"
        /\ DOMAIN active_limit_orders = {}
        /\ result'.op = "submit_market_order"
        /\ result'.status = "Ok"
        /\ position'.kind = "Neutral") =>
          \A exit \in {result'.updates[1].avg_fill_price} :
            \A pnl \in {ClosingPnl(position.kind, position.entry_price, exit,
                                   position.quantity)} :
              /\ position' = Neutral
              /\ Balance(USER_POSITION_MARGIN_ACCOUNT)' = 0
              /\ Balance(TREASURY_ACCOUNT)' = 0 - pnl
              /\ Balance(EXCHANGE_FEE_ACCOUNT)' =
                    Balance(EXCHANGE_FEE_ACCOUNT)
                        + MulFee(Convert(position.quantity, exit), fee_taker)
              /\ Balance(USER_WALLET_ACCOUNT)' =
                    starting_wallet_balance + pnl - Balance(EXCHANGE_FEE_ACCOUNT)'
              /\ exit = position.entry_price =>
                    /\ Balance(TREASURY_ACCOUNT)' = 0
                    /\ Balance(USER_WALLET_ACCOUNT)' =
                          starting_wallet_balance - Balance(EXCHANGE_FEE_ACCOUNT)']_vars

\* the second order of the exchange, a market order, closed the position the
\* first one opened, at another price than the entry price
C22_Witness ==
    /\ result.op = "submit_market_order"
    /\ result.status = "Ok"
    /\ next_order_id = 2
    /\ position = Neutral
    /\ DOMAIN active_limit_orders = {}
    /\ Balance(TREASURY_ACCOUNT) # 0
    /\ Balance(EXCHANGE_FEE_ACCOUNT) > 0

\* every way a submit_limit_order call can be rejected
LimitOrderRejections ==
    FilterErrors \cup PostOnlyErrors
        \cup {"NotEnoughAvailableBalance", "ExceedsMaxOpenOrders", "DuplicateUserOrderId"}

\* C23 (cap on active orders): the active set never holds more than
\* max_num_open_orders orders, and a submit_limit_order made while it holds
\* that many is rejected, with ExceedsMaxOpenOrders unless another check
\* rejects the order first, and leaves the set unchanged
C23_MaxNumOpenOrders ==
    [][/\ Cardinality(DOMAIN active_limit_orders') <= max_num_open_orders
       /\ (/\ result'.op = "submit_limit_order"
           /\ Cardinality(DOMAIN active_limit_orders) >= max_num_open_orders) =>
             /\ result'.status \in LimitOrderRejections
             /\ UNCHANGED active_limit_orders]_vars

\* the active orders that carry the user order id
ActiveWith(orders, user_order_id) ==
    {id \in DOMAIN orders : orders[id].user_order_id = user_order_id}

\* user order ids other than UserOrderId::default()
NonDefaultUserOrderIds == UserOrderIds \ {0}

\* C24 (user order ids are unique): at most one active limit order carries a
\* given non-default user order id, and the lookup entry of a user order id
\* whose order is still active is never replaced by another order's id
C24_UniqueUserOrderId ==
    [][\A u \in NonDefaultUserOrderIds :
          /\ Cardinality(ActiveWith(active_limit_orders', u)) <= 1
          /\ (/\ u \in DOMAIN lookup_order_nonce_from_user_order_id
              /\ lookup_order_nonce_from_user_order_id[u] \in DOMAIN active_limit_orders'
              /\ u \in DOMAIN lookup_order_nonce_from_user_order_id') =>
                lookup_order_nonce_from_user_order_id'[u] =
                    lookup_order_nonce_from_user_order_id[u]]_vars

\* C25 (cancel by user order id): cancel_order_by_user_id(u) returns Ok exactly
\* when an active limit order carries u, and then leaves the exchange and
\* returns the order as cancel_limit_order on that order's id does; when no
\* active order carries u it returns UserOrderIdNotFound; every entry of the
\* lookup refers to an active order
C25_CancelByUserOrderId ==
    [][/\ \A u \in DOMAIN lookup_order_nonce_from_user_order_id' :
             lookup_order_nonce_from_user_order_id'[u] \in DOMAIN active_limit_orders'
       /\ result'.op = "cancel_order_by_user_id" =>
             \A u \in {result'.args[1]} :
                /\ ActiveWith(active_limit_orders, u) = {} =>
                      result'.status = "UserOrderIdNotFound"
                /\ ActiveWith(active_limit_orders, u) # {} =>
                      \E id \in ActiveWith(active_limit_orders, u) :
                         \A m \in {cancel_limit_order(Cur, id)} :
                            /\ result'.status = StatusOf(m)
                            /\ m.panic = NoPanic =>
                                /\ result'.updates = <<active_limit_orders[id]>>
                                /\ active_limit_orders' = m.active_limit_orders
                                /\ transaction_accounting' = m.transaction_accounting
                                /\ order_margin' = m.order_margin
                                /\ position' = m.position]_vars

\* what a caller observes of a matching pass: the updates it returns, the
\* position and the ledger it leaves, and whether it aborted
Observed(m) ==
    [order_updates |-> m.order_updates, position |-> m.position,
     transaction_accounting |-> m.transaction_accounting, panic |-> m.panic]

\* C26 (determinism): the updates one update_state call emits are in ascending
\* order of OrderId, and the updates, the position and the ledger balances
\* the matching pass of a trade leaves do not depend on the order in which the
\* map of the active orders is iterated
C26_Deterministic ==
    [][/\ result'.op = "update_state" =>
             \A i, j \in DOMAIN result'.updates :
                i < j => result'.updates[i].order.id < result'.updates[j].order.id
       /\ (result'.op = "update_state" /\ result'.args[2] = "Trade") =>
             \A upd \in {trade \in Trades : Crossed(trade) = result'.args[3]} :
                \A first, second \in Iterations(active_limit_orders) :
                   Observed(check_active_orders(Cur, upd, first))
                       = Observed(check_active_orders(Cur, upd, second))]_vars

\* C27 (unrealized pnl): Position::unrealized_pnl(bid, ask) returns 0 for
\* Neutral, q * (bid - entry) for a Long of q at entry and q * (entry - ask)
\* for a Short of q at entry
C27_UnrealizedPnl ==
    (result.op = "unrealized_pnl" /\ result.status = "Ok") =>
        \A bid \in {result.args[1]}, ask \in {result.args[2]} :
            /\ position.kind = "Neutral" => result.updates[1] = 0
            /\ position.kind = "Long" =>
                  result.updates[1] =
                      position.quantity * (bid - position.entry_price)
            /\ position.kind = "Short" =>
                  result.updates[1] =
                      position.quantity * (position.entry_price - ask)

\* the ids of the orders of a side
IdsOf(orders, side) == {id \in DOMAIN orders : orders[id].side = side}

RECURSIVE SumOver(_, _)
SumOver(f, ids) ==
    IF ids = {} THEN 0
    ELSE LET id == CHOOSE i \in ids : TRUE
         IN f[id] + SumOver(f, ids \ {id})

\* step 1 of the reference algorithm: the open quantity of a side
OpenQuantity(orders, side) ==
    SumOver([id \in IdsOf(orders, side) |-> remaining_quantity(orders[id])],
            IdsOf(orders, side))

\* step 2: the ways to take the offset quantity off the orders of a side; the
\* spec does not say which orders give it up
Reductions(orders, side, offset) ==
    {r \in [IdsOf(orders, side) -> 0 .. offset] :
        /\ \A id \in IdsOf(orders, side) : r[id] <= remaining_quantity(orders[id])
        /\ SumOver(r, IdsOf(orders, side)) = offset}

\* step 3: the notional of the quantities that remain, at their limit prices
RemainingNotional(orders, side, r) ==
    SumOver([id \in IdsOf(orders, side) |->
                Convert(remaining_quantity(orders[id]) - r[id], orders[id].limit_price)],
            IdsOf(orders, side))

\* steps 2 to 4 for one side: closing is the size of the position the orders
\* of the side would close
ReferenceNotionals(orders, side, closing, entry_price) ==
    {Max(0, RemainingNotional(orders, side, r)
                - Convert(closing - Min(OpenQuantity(orders, side), closing), entry_price)) :
        r \in Reductions(orders, side, Min(OpenQuantity(orders, side), closing))}

\* the reference algorithm of the spec: the margins it allows
ReferenceOrderMargins(orders, pos) ==
    {MulImr(Max(nb, ns)) :
        nb \in ReferenceNotionals(orders, Buy,
                                  IF pos.kind = "Short" THEN pos.quantity ELSE 0,
                                  pos.entry_price),
        ns \in ReferenceNotionals(orders, Sell,
                                  IF pos.kind = "Long" THEN pos.quantity ELSE 0,
                                  pos.entry_price)}

\* C28 (order margin calculator): for every set of pending limit orders and
\* every position the calculator returns a margin of the reference algorithm:
\* the open sell quantity is reduced by min(Qs, L) for a Long of L (the open
\* buy quantity by min(Qb, S) for a Short of S), the notionals of the
\* remaining quantities are taken at their limit prices, less the notional of
\* a residual opposing position at its entry price and not below zero, and
\* the larger of the two times init_margin_req is returned; with a Neutral
\* position this is the larger of the two sides' notionals times imr
C28_OrderMarginReference ==
    (result.op = "compute_order_margin" /\ result.status = "Ok") =>
        \A orders \in {result.args[1]}, pos \in {result.args[2]} :
            /\ result.updates[1] \in ReferenceOrderMargins(orders, pos)
            /\ pos.kind = "Neutral" =>
                  result.updates[1] =
                      MulImr(Max(NotionalSum(orders, DOMAIN orders, Buy),
                                 NotionalSum(orders, DOMAIN orders, Sell)))

\* the side whose orders close a position of the kind
ClosingSide(kind) == IF kind = "Long" THEN Sell ELSE Buy

\* C29 (closing orders need no margin): with a Long (Short) position and only
\* sell (buy) orders resting, a further sell (buy) order that keeps the total
\* open quantity within the size of the position is accepted, whatever its
\* limit price and the wallet balance, once it has passed the filters and the
\* post-only comparison, and USER_ORDER_MARGIN stays at zero
C29_ClosingOrdersNeedNoMargin ==
    [][(/\ result'.op = "submit_limit_order"
        /\ position.kind # "Neutral"
        /\ result'.args[1] = ClosingSide(position.kind)
        /\ \A id \in DOMAIN active_limit_orders :
              active_limit_orders[id].side = ClosingSide(position.kind)
        /\ OpenQuantity(active_limit_orders, ClosingSide(position.kind))
              + result'.args[3] <= position.quantity
        /\ result'.status \notin (FilterErrors \cup PostOnlyErrors)) =>
          /\ result'.status = "Ok"
          /\ Balance(USER_ORDER_MARGIN_ACCOUNT)' = 0]_vars

\* the exchange holds Short(9 @ 100), opened by its first order, under the
\* quotes (100, 101)
ShortNineAtHundred ==
    /\ next_order_id = 1
    /\ market_state.bid = 100 * Scale
    /\ market_state.ask = 101 * Scale
    /\ position = PositionOf("Short", 9, 100 * Scale)

\* the wallet balance together with the margins taken from it
TotalWallet ==
    Balance(USER_WALLET_ACCOUNT) + Balance(USER_ORDER_MARGIN_ACCOUNT)
        + Balance(USER_POSITION_MARGIN_ACCOUNT)

\* the first leg: a market sell of 9 on the fresh exchange under the quotes
\* (100, 101) gives Short(9 @ 100) for a taker fee of 0.54
ScenarioFirstLeg ==
    (/\ next_order_id = 0
     /\ market_state.bid = 100 * Scale
     /\ market_state.ask = 101 * Scale
     /\ result'.op = "submit_market_order"
     /\ result'.args = <<Sell, 9>>) =>
       /\ result'.status = "Ok"
       /\ position' = PositionOf("Short", 9, 100 * Scale)
       /\ Balance(EXCHANGE_FEE_ACCOUNT)' = (54 * Scale) \div 100

\* the second leg up to the fee: the market buy of 18 is accepted, gives
\* Long(9 @ 101), realises a pnl of -9 and books a position margin of 909
ScenarioSecondLeg ==
    /\ result'.status = "Ok"
    /\ position' = PositionOf("Long", 9, 101 * Scale)
    /\ Balance(TREASURY_ACCOUNT)' = 9 * Scale
    /\ Balance(USER_POSITION_MARGIN_ACCOUNT)' = 909 * Scale

\* C30 as stated (turnaround scenario): starting balance 1000, imr 1,
\* fee_taker 0.0006, quotes (100, 101): a market sell of 9 gives Short(9 @ 100);
\* the market buy of 18 that follows gives Long(9 @ 101), realises a pnl of -9,
\* the two legs are charged taker fees of 0.54 and 0.5454, and the exchange
\* ends with a total wallet of 989.9146, a position margin of 909 and an
\* available balance of 80.9146
C30_TurnaroundAsStated ==
    [][/\ ScenarioFirstLeg
       /\ (/\ ShortNineAtHundred
           /\ result'.op = "submit_market_order"
           /\ result'.args = <<Buy, 18>>) =>
             /\ ScenarioSecondLeg
             /\ Balance(EXCHANGE_FEE_ACCOUNT)' =
                   ((54 * Scale) \div 100) + ((5454 * Scale) \div 10000)
             /\ TotalWallet' = 989 * Scale + ((9146 * Scale) \div 10000)
             /\ Balance(USER_WALLET_ACCOUNT)' = 80 * Scale + ((9146 * Scale) \div 10000)]_vars

\* C30 (turnaround scenario, the fee on the whole order): as above, but the
\* buy of 18 is charged the taker fee on all 18 units at 101, 1.0908, so the
\* exchange ends with a total wallet of 1000 - 9 - 0.54 - 1.0908 = 989.3692, a
\* position margin of 909 and an available balance of 80.3692
C30_Turnaround ==
    [][/\ ScenarioFirstLeg
       /\ (/\ ShortNineAtHundred
           /\ result'.op = "submit_market_order"
           /\ result'.args = <<Buy, 18>>) =>
             /\ ScenarioSecondLeg
             /\ Balance(EXCHANGE_FEE_ACCOUNT)' =
                   ((54 * Scale) \div 100) + (Scale + ((908 * Scale) \div 10000))
             /\ TotalWallet' = 989 * Scale + ((3692 * Scale) \div 10000)
             /\ Balance(USER_WALLET_ACCOUNT)' = 80 * Scale + ((3692 * Scale) \div 10000)]_vars

\* the two legs of the scenario have been played: the second order of the
\* exchange, a market buy of 18, turned the short of 9 into Long(9 @ 101)
C30_Witness ==
    /\ result.op = "submit_market_order"
    /\ result.args = <<Buy, 18>>
    /\ result.status = "Ok"
    /\ next_order_id = 2
    /\ position = PositionOf("Long", 9, 101 * Scale)
    /\ Balance(TREASURY_ACCOUNT) = 9 * Scale

\* the sum of the balances of all accounts of the ledger
LedgerSum ==
    Balance(USER_WALLET_ACCOUNT) + Balance(USER_ORDER_MARGIN_ACCOUNT)
        + Balance(USER_POSITION_MARGIN_ACCOUNT) + Balance(EXCHANGE_FEE_ACCOUNT)
        + Balance(TREASURY_ACCOUNT)

\* the quotes are (99, 100)
QuotedNinetyNineHundred ==
    /\ market_state.bid = 99 * Scale
    /\ market_state.ask = 100 * Scale

\* the first leg of the round trip: on the fresh exchange under the quotes
\* (99, 100) a market buy of 5 gives Long(5 @ 100) with a position margin of
\* 500 and 499.70 available
RoundTripFirstLeg ==
    (/\ next_order_id = 0
     /\ QuotedNinetyNineHundred
     /\ result'.op = "submit_market_order"
     /\ result'.args = <<Buy, 5>>) =>
       /\ result'.status = "Ok"
       /\ position' = PositionOf("Long", 5, 100 * Scale)
       /\ Balance(USER_POSITION_MARGIN_ACCOUNT)' = 500 * Scale
       /\ Balance(USER_WALLET_ACCOUNT)' = 499 * Scale + ((70 * Scale) \div 100)
       /\ LedgerSum' = starting_wallet_balance

\* the exchange holds Long(5 @ 100), opened by its first order, under the
\* quotes (99, 100), and a market sell of 5 is submitted
RoundTripSecondLeg ==
    /\ next_order_id = 1
    /\ QuotedNinetyNineHundred
    /\ position = PositionOf("Long", 5, 100 * Scale)
    /\ result'.op = "submit_market_order"
    /\ result'.args = <<Sell, 5>>

\* C31 as stated (market round trip): starting balance 1000, imr 1, fee_taker
\* 0.0006, quotes (99, 100) throughout: a market buy of 5 gives Long(5 @ 100)
\* with a position margin of 500 and 499.70 available; the market sell of 5
\* that follows gives Neutral with a wallet of 999.70 - 0.297 = 999.403, and
\* the ledger still sums to 1000
C31_RoundTripAsStated ==
    [][/\ RoundTripFirstLeg
       /\ RoundTripSecondLeg =>
             /\ result'.status = "Ok"
             /\ position' = Neutral
             /\ Balance(USER_WALLET_ACCOUNT)' = 999 * Scale + ((403 * Scale) \div 1000)
             /\ LedgerSum' = starting_wallet_balance]_vars

\* C31 (market round trip, the spread realised): as above, but the sell of 5
\* is filled at the bid of 99, so the loss of 5 * (99 - 100) = -5 is realised
\* with the treasury and the wallet ends at 999.70 - 5 - 0.297 = 994.403, the
\* fee account at 0.30 + 0.297 and the position margin at zero
C31_RoundTrip ==
    [][/\ RoundTripFirstLeg
       /\ RoundTripSecondLeg =>
             /\ result'.status = "Ok"
             /\ position' = Neutral
             /\ Balance(USER_POSITION_MARGIN_ACCOUNT)' = 0
             /\ Balance(TREASURY_ACCOUNT)' = 5 * Scale
             /\ Balance(EXCHANGE_FEE_ACCOUNT)' =
                   ((30 * Scale) \div 100) + ((297 * Scale) \div 1000)
             /\ Balance(USER_WALLET_ACCOUNT)' = 994 * Scale + ((403 * Scale) \div 1000)
             /\ LedgerSum' = starting_wallet_balance]_vars

\* both legs of the round trip have been played: the second order of the
\* exchange, a market sell of 5 at the bid of 99, closed the long of 5 @ 100
C31_Witness ==
    /\ result.op = "submit_market_order"
    /\ result.args = <<Sell, 5>>
    /\ result.status = "Ok"
    /\ next_order_id = 2
    /\ QuotedNinetyNineHundred
    /\ position = Neutral
    /\ Balance(TREASURY_ACCOUNT) = 5 * Scale

\* what validate_order_quantity is to return for the quantity: QuantityTooLow
\* at or below zero and below the minimum, QuantityTooHigh above the maximum,
\* InvalidQuantityStepSize off the steps counted from the minimum
ValidQuantityStatuses(filter, quantity) ==
    IF \/ quantity <= 0
       \/ filter.min_quantity # None /\ quantity < filter.min_quantity[1]
       \/ filter.max_quantity # None /\ quantity > filter.max_quantity[1]
    THEN (IF \/ quantity <= 0
             \/ filter.min_quantity # None /\ quantity < filter.min_quantity[1]
          THEN {"QuantityTooLow"} ELSE {})
         \cup (IF filter.max_quantity # None /\ quantity > filter.max_quantity[1]
               THEN {"QuantityTooHigh"} ELSE {})
    ELSE IF ((quantity - (IF filter.min_quantity # None
                          THEN filter.min_quantity[1] ELSE 0))
                % filter.tick_size) # 0
    THEN {"InvalidQuantityStepSize"}
    ELSE {"Ok"}

\* what QuantityFilter::new is to return for the arguments
NewFilterStatuses(min_quantity, tick_size) ==
    IF tick_size = 0
    THEN {"InvalidTickSize"}
             \cup (IF min_quantity # None /\ min_quantity[1] # 0
                   THEN {"InvalidMinQuantity"} ELSE {})
    ELSE IF min_quantity # None /\ (min_quantity[1] % tick_size) # 0
    THEN {"InvalidMinQuantity"}
    ELSE {"Ok"}

\* C32 (quantity validation): validate_order_quantity returns QuantityTooLow
\* for a quantity of zero or less or below the minimum, QuantityTooHigh for one
\* above the maximum, InvalidQuantityStepSize for one off the steps counted
\* from the minimum (from 0 without a minimum), and Ok otherwise; and
\* QuantityFilter::new returns InvalidMinQuantity when the minimum is not a
\* multiple of the step, InvalidTickSize when the step is zero, and Ok
\* otherwise, for every combination of arguments, without ever aborting
C32_QuantityValidation ==
    /\ (result.op = "validate_order_quantity" /\ result.status # "Pending") =>
          result.status \in ValidQuantityStatuses(quantity_filter, result.args[1])
    /\ (result.op = "QuantityFilter::new" /\ result.status # "Pending") =>
          /\ result.status # "Panic"
          /\ result.status \in NewFilterStatuses(result.args[1], result.args[3])

\* the quantity the fill reported by the order update added to the order
FilledBy(update, order) == update.order.cumulative_qty - order.cumulative_qty

\* the part of a fill of filled_qty on the side that closes the position
ClosedBy(pos, side, filled_qty) ==
    IF pos.kind = "Neutral" \/ pos.kind = KindOf(side) THEN 0
    ELSE Min(filled_qty, pos.quantity)

RECURSIVE SignedFills(_, _, _)
SignedFills(updates, orders, i) ==
    IF i > Len(updates) THEN 0
    ELSE (IF updates[i].order.side = Buy
          THEN FilledBy(updates[i], orders[updates[i].order.id])
          ELSE 0 - FilledBy(updates[i], orders[updates[i].order.id]))
         + SignedFills(updates, orders, i + 1)

C35_FeeBothDirections ==
    [][(result.op = "detract_fee" /\ result.status = "Pending") =>
          \A amount \in {MulFee(result.args[1], result.args[2])} :
            /\ result'.status = "Ok"
            /\ Balance(EXCHANGE_FEE_ACCOUNT)' = Balance(EXCHANGE_FEE_ACCOUNT) + amount
            /\ Balance(USER_WALLET_ACCOUNT)' = Balance(USER_WALLET_ACCOUNT) - amount
            /\ \A a \in Accounts \ {EXCHANGE_FEE_ACCOUNT, USER_WALLET_ACCOUNT} :
                  Balance(a)' = Balance(a)
            /\ LedgerSum' = LedgerSum]_vars

\* the volume of the candle that the Trade rule lets fill the order: the
\* aggregated buys above the limit price of a sell order, the aggregated sells
\* below the limit price of a buy order
RECURSIVE CandleVolumeFor(_, _, _)
CandleVolumeFor(levels, order, i) ==
    IF i > Len(levels) THEN 0
    ELSE IF IF order.side = Sell THEN levels[i][1] > order.limit_price
            ELSE levels[i][1] < order.limit_price
    THEN Max(levels[i][2], CandleVolumeFor(levels, order, i + 1))
    ELSE CandleVolumeFor(levels, order, i + 1)

ReplayedVolume(candle, order) ==
    IF order.side = Sell THEN CandleVolumeFor(candle.aggregate_buy_volume, order, 1)
    ELSE CandleVolumeFor(candle.aggregate_sell_volume, order, 1)

\* C36 (candles fill by replaying their volume): an update_state call with a
\* SmartCandle made while limit orders are active completes, with the
\* maintenance margin error or with the order updates; the bid and the ask
\* are the candle's quote; and when it returns the updates, each resting order
\* is filled by the candle's taker volume traded through its limit price
\* (buys above a sell, sells below a buy), up to what remains of the order
C36_SmartCandleFills ==
    [][(/\ result'.op = "update_state"
        /\ result'.args[2] = "SmartCandle"
        /\ DOMAIN active_limit_orders # {}) =>
          \A candle \in {result'.args[4]} :
            /\ result'.status \in {"Ok", "MaintenanceMarginViolated"}
            /\ market_state'.bid = candle.bid
            /\ market_state'.ask = candle.ask
            /\ result'.status = "Ok" =>
                  \A id \in DOMAIN active_limit_orders :
                    \A order \in {active_limit_orders[id]} :
                      IF ReplayedVolume(candle, order) = 0
                      THEN \A i \in DOMAIN result'.updates :
                              result'.updates[i].order.id # id
                      ELSE \E i \in DOMAIN result'.updates :
                              result'.updates[i].order =
                                  fill(order, Min(ReplayedVolume(candle, order),
                                                  remaining_quantity(order)))]_vars

\* C37 (no margin without a position): whenever the position is Neutral the
\* position margin account is empty, also after a position was built by
\* several fills at different prices and then closed
C37_NeutralHasNoPositionMargin ==
    (panic = NoPanic /\ position.kind = "Neutral") =>
        Balance(USER_POSITION_MARGIN_ACCOUNT) = 0

\* C38 (a fill never raises the order margin): in every update_state call,
\* for every fill processed in check_active_orders the order margin
\* recomputed after the fill is at most the order margin held before it, so
\* the assertion that guards this never aborts the call
C38_FillNeverRaisesOrderMargin ==
    panic # "The order margin does not increase with a filled limit order event."

\* the quantity the fills reported by the updates added to the orders
RECURSIVE TotalFills(_, _, _)
TotalFills(updates, orders, i) ==
    IF i > Len(updates) THEN 0
    ELSE FilledBy(updates[i], orders[updates[i].order.id])
         + TotalFills(updates, orders, i + 1)

\* C39 (one trade is consumed at most once): in every update_state call with
\* a Trade of quantity t that returns, the fills of the resting limit orders
\* the trade fills add up to at most t
C39_TradeConsumedOnce ==
    [][(/\ result'.op = "update_state"
        /\ result'.status = "Ok"
        /\ result'.args[2] = "Trade") =>
          TotalFills(result'.updates, active_limit_orders, 1)
              <= result'.args[4].quantity]_vars

\* the id of the order the call accepted as a resting limit order
AcceptedBy(res) ==
    IF res.op = "submit_limit_order" /\ res.status = "Ok" THEN {res.order_id} ELSE {}

\* the id of the order the call cancelled
CancelledBy(res) ==
    IF res.op \in {"cancel_limit_order", "cancel_order_by_user_id"} /\ res.status = "Ok"
    THEN {res.updates[1].id} ELSE {}

\* the ids of the orders the call reported as fully filled
FullyFilledBy(res) ==
    IF res.op = "update_state" /\ res.status = "Ok"
    THEN {res.updates[i].order.id :
             i \in {j \in DOMAIN res.updates : res.updates[j].kind = "FullyFilled"}}
    ELSE {}

\* C40 (the active set): after every public operation that returns, every
\* order in the active set (a LimitOrder<Pending> under its own id) has a
\* remaining quantity > 0 and a cumulative filled quantity below its original
\* quantity; the active set is the set before the call with the order the call
\* accepted, without the order it cancelled and the orders it fully filled, so
\* that from the empty set of a new exchange it holds exactly the accepted
\* orders neither cancelled nor fully filled; and the order-margin calculator
\* holds the same orders
C40_ActiveSet ==
    [][panic' = NoPanic =>
          /\ \A id \in DOMAIN active_limit_orders' :
                \A order \in {active_limit_orders'[id]} :
                  /\ order.id = id
                  /\ remaining_quantity(order) > 0
                  /\ order.cumulative_qty >= 0
                  /\ order.cumulative_qty < order.quantity
          /\ DOMAIN active_limit_orders' =
                ((DOMAIN active_limit_orders) \cup AcceptedBy(result'))
                    \ (CancelledBy(result') \cup FullyFilledBy(result'))
          /\ AcceptedBy(result') \cap DOMAIN active_limit_orders = {}
          /\ (CancelledBy(result') \cup FullyFilledBy(result'))
                \subseteq DOMAIN active_limit_orders
          /\ order_margin' = active_limit_orders']_vars

\* an earlier order has left the active set, and a trade filled a later one
\* in part: it stays active, in the calculator too, with its cumulative
\* quantity
C40_Witness ==
    /\ panic = NoPanic
    /\ result.op = "update_state"
    /\ result.status = "Ok"
    /\ closed_order_ids # {}
    /\ closed_order_ids \cap DOMAIN active_limit_orders = {}
    /\ \E i \in DOMAIN result.updates :
          /\ result.updates[i].kind = "PartiallyFilled"
          /\ result.updates[i].order.id \in DOMAIN active_limit_orders
          /\ active_limit_orders[result.updates[i].order.id] = result.updates[i].order
          /\ order_margin[result.updates[i].order.id] = result.updates[i].order
          /\ result.updates[i].order.cumulative_qty > 0

====
